---------------------------- MODULE Spec2Model ----------------------------
(***************************************************************************)
(* A model of the text-analysis core of opengrammer: the grammar rule      *)
(* engine with its result cache and rule-table reconfiguration, the style  *)
(* rule table, the rewrite engine, the tone detector and the debounce      *)
(* utility.  Strings are TLA+ strings; a character is a string of length   *)
(* one.  JavaScript indices are 0-based and are kept 0-based wherever the  *)
(* source computes with them.                                              *)
(***************************************************************************)
EXTENDS Integers, Sequences, FiniteSets, TLC

VARIABLES
    GRAMMAR_RULES,     \* the active grammar rule table (grammarEngine)
    STYLE_RULES,       \* the active style rule table (styleService)
    processingCache,   \* Map<string, CheckResult[]> in insertion order
    cacheTimers,       \* pending auto-expiry timers of setCachedResult, oldest first
    storeOrder,        \* history: the cached keys in the order they were last stored
    now,               \* Date.now(), in ms
    debounceTimers,    \* Map<string, Timeout> of debounce: key -> timer
    invocations,       \* history: the debounced invocations, indexed by their timer
    ret,               \* the last call of an entry point and how it ended
    expiry,            \* history: when the cache entries were stored, when their
                       \* timers are due, and the last cache hit
    suggestionCache,   \* CachingService: this.cache, a Map<string, CacheEntry> in insertion order
    maxCacheSize,      \* CachingService: the size limit
    defaultTtlSeconds, \* CachingService: the time to live of an entry stored without one
    resizing,          \* CachingService: updateConfig is in its eviction loop
    isActive,          \* OverlayService: the service is running
    handlers,          \* OverlayService: the registered handlers
    activeOverlays,    \* OverlayService: Map<string, ActiveOverlay> in insertion order
    maxOverlays,       \* OverlayService: config.maxOverlays
    creating,          \* OverlayService: the overlays whose window creation is awaited
    simulatedOverlayFailure  \* OverlayService: the switch of simulateOverlayFailure

rulesVars == <<GRAMMAR_RULES, STYLE_RULES, processingCache, cacheTimers, storeOrder>>
debounceVars == <<now, debounceTimers, invocations>>
cachingVars == <<suggestionCache, maxCacheSize, defaultTtlSeconds, resizing>>
overlayVars == <<isActive, handlers, activeOverlays, maxOverlays, creating,
                 simulatedOverlayFailure>>
serviceVars == <<expiry, cachingVars, overlayVars>>

-----------------------------------------------------------------------------
(* JavaScript strings                                                      *)

DIGIT == "0123456789"

UpperSet ==
    {"A", "B", "C", "D", "E", "F", "G", "H", "I", "J", "K", "L", "M",
     "N", "O", "P", "Q", "R", "S", "T", "U", "V", "W", "X", "Y", "Z"}
LowerSet ==
    {"a", "b", "c", "d", "e", "f", "g", "h", "i", "j", "k", "l", "m",
     "n", "o", "p", "q", "r", "s", "t", "u", "v", "w", "x", "y", "z"}
DigitSet == {"0", "1", "2", "3", "4", "5", "6", "7", "8", "9"}

\* toLowerCase and toUpperCase of one letter
LowerOf ==
    [A |-> "a", B |-> "b", C |-> "c", D |-> "d", E |-> "e", F |-> "f",
     G |-> "g", H |-> "h", I |-> "i", J |-> "j", K |-> "k", L |-> "l",
     M |-> "m", N |-> "n", O |-> "o", P |-> "p", Q |-> "q", R |-> "r",
     S |-> "s", T |-> "t", U |-> "u", V |-> "v", W |-> "w", X |-> "x",
     Y |-> "y", Z |-> "z"]
UpperOf ==
    [a |-> "A", b |-> "B", c |-> "C", d |-> "D", e |-> "E", f |-> "F",
     g |-> "G", h |-> "H", i |-> "I", j |-> "J", k |-> "K", l |-> "L",
     m |-> "M", n |-> "N", o |-> "O", p |-> "P", q |-> "Q", r |-> "R",
     s |-> "S", t |-> "T", u |-> "U", v |-> "V", w |-> "W", x |-> "X",
     y |-> "Y", z |-> "Z"]

\* s[i] with a 0-based i; "" stands for undefined (out of range).
charAt(s, i) == IF i >= 0 /\ i < Len(s) THEN SubSeq(s, i + 1, i + 1) ELSE ""

isUpper(c) == c \in UpperSet
isLower(c) == c \in LowerSet
isLetter(c) == isUpper(c) \/ isLower(c)                      \* [a-zA-Z]
isWordChar(c) == isLetter(c) \/ c \in DigitSet \/ c = "_"    \* \w
isSpace(c) == c \in {" ", "\t", "\n"}                        \* \s
isTerminal(c) == c \in {".", "!", "?"}                       \* [.!?]

lowerChar(c) == IF isUpper(c) THEN LowerOf[c] ELSE c
upperChar(c) == IF isLower(c) THEN UpperOf[c] ELSE c

RECURSIVE toLowerCase(_)
toLowerCase(s) == IF s = "" THEN "" ELSE lowerChar(Head(s)) \o toLowerCase(Tail(s))

RECURSIVE trimStart(_)
trimStart(s) == IF s # "" /\ isSpace(Head(s)) THEN trimStart(Tail(s)) ELSE s

RECURSIVE trimEnd(_)
trimEnd(s) ==
    IF s # "" /\ isSpace(SubSeq(s, Len(s), Len(s)))
    THEN trimEnd(SubSeq(s, 1, Len(s) - 1))
    ELSE s

trim(s) == trimEnd(trimStart(s))

\* w occurs in s at the 0-based index i.
occursAt(s, w, i) == i >= 0 /\ i + Len(w) <= Len(s) /\ SubSeq(s, i + 1, i + Len(w)) = w

\* s.indexOf(w, from): the first 0-based index >= from where w occurs, else -1.
indexOfFrom(s, w, from) ==
    LET hits == {i \in from..(Len(s) - Len(w)) : occursAt(s, w, i)}
    IN IF hits = {} THEN -1 ELSE CHOOSE i \in hits : \A j \in hits : i <= j

indexOf(s, w) == indexOfFrom(s, w, 0)
includes(s, w) == indexOf(s, w) # -1

\* s.split(sep) for a one-character separator.
RECURSIVE split(_, _)
split(s, sep) ==
    LET i == indexOf(s, sep)
    IN IF i = -1 THEN <<s>>
       ELSE <<SubSeq(s, 1, i)>> \o split(SubSeq(s, i + 2, Len(s)), sep)

\* The least element of a non-empty set of integers; -1 for the empty set
\* (a RegExp.exec that finds no match).
firstIndex(S) == IF S = {} THEN -1 ELSE CHOOSE i \in S : \A j \in S : i <= j

-----------------------------------------------------------------------------
(* Regular expressions.  A compiled pattern is [source, flags]; exec gives *)
(* the 0-based index of the leftmost match in a line, or -1.  Every call   *)
(* site resets lastIndex to 0 before exec, so a pattern carries no state.  *)

\* \b between the characters at 0-based indices p-1 and p.
wordBoundary(s, p) == isWordChar(charAt(s, p - 1)) # isWordChar(charAt(s, p))

\* The indices j > i such that s[i..j-1] is a non-empty run of whitespace (\s+).
afterSpaces(s, i) ==
    {j \in (i + 1)..Len(s) : \A k \in i..(j - 1) : isSpace(charAt(s, k))}

\* The indices j > i such that s[i..j-1] is a non-empty run of word characters (\w+).
afterWord(s, i) ==
    {j \in (i + 1)..Len(s) : \A k \in i..(j - 1) : isWordChar(charAt(s, k))}

\* The patterns below carry the i flag: they are matched against `low`, the
\* lower-cased line, with their literals in lower case.

\* /\b(a1|a2|...)\s+verb\b/i
execAgreement(low, alts, verb) ==
    firstIndex({i \in 0..Len(low) :
        /\ wordBoundary(low, i)
        /\ \E a \in alts : /\ occursAt(low, a, i)
                           /\ \E j \in afterSpaces(low, i + Len(a)) :
                                  occursAt(low, verb, j) /\ wordBoundary(low, j + Len(verb))})

\* /\b(the|a|an)\s+\w+\s+are\b/i
execDeterminer(low) ==
    firstIndex({i \in 0..Len(low) :
        /\ wordBoundary(low, i)
        /\ \E a \in {"the", "a", "an"} : /\ occursAt(low, a, i)
              /\ \E j \in afterSpaces(low, i + Len(a)) : \E k \in afterWord(low, j) :
                     \E m \in afterSpaces(low, k) :
                         occursAt(low, "are", m) /\ wordBoundary(low, m + 3)})

\* /\b(f1|f2|...)\b.*\band\s+(g1|g2|...)\b/i
execTense(low, first, second) ==
    firstIndex({i \in 0..Len(low) :
        /\ wordBoundary(low, i)
        /\ \E f \in first : /\ occursAt(low, f, i) /\ wordBoundary(low, i + Len(f))
              /\ \E p \in (i + Len(f))..Len(low) :
                     /\ wordBoundary(low, p) /\ occursAt(low, "and", p)
                     /\ \E q \in afterSpaces(low, p + 3) : \E g \in second :
                            occursAt(low, g, q) /\ wordBoundary(low, q + Len(g))})

\* /^[A-Z][^.!?]*[a-zA-Z]\s*$/ : the letter before the trailing whitespace is
\* at least the second character, and no terminal mark stands before it.
execMissingPeriod(s) ==
    LET body == trimEnd(s)
    IN IF /\ Len(body) >= 2
          /\ isUpper(charAt(s, 0))
          /\ isLetter(charAt(body, Len(body) - 1))
          /\ \A k \in 1..(Len(body) - 2) : ~isTerminal(charAt(s, k))
          /\ \A k \in Len(body)..(Len(s) - 1) : isSpace(charAt(s, k))
       THEN 0 ELSE -1

PluralNouns == {"cats", "dogs", "birds", "people", "children", "women", "men"}
SingularNouns == {"cat", "dog", "bird", "person", "child", "woman", "man", "caat", "doog", "brid"}
PastVerbs == {"went", "walked", "ran", "drove", "ate", "bought"}
PresentVerbs == {"go", "walk", "run", "drive", "eat", "buy"}

\* Sources the configuration can name that new RegExp() rejects.
InvalidSources == {"(", "[a-"}
ValidFlags == {"", "g", "i", "gi"}

\* new RegExp(source, flags) throws a SyntaxError.
regExpThrows(source, flags) == source \in InvalidSources \/ flags \notin ValidFlags

exec(pattern, s) ==
    LET src == pattern.source
        ci == includes(pattern.flags, "i")
        low == toLowerCase(s)
    IN CASE src = "^[A-Z][^.!?]*[a-zA-Z]\\s*$" -> execMissingPeriod(s)
         [] src = "\\s{2,}" ->
              firstIndex({i \in 0..(Len(s) - 2) : isSpace(charAt(s, i)) /\ isSpace(charAt(s, i + 1))})
         [] src = "[.!?]{2,}" ->
              firstIndex({i \in 0..(Len(s) - 2) : isTerminal(charAt(s, i)) /\ isTerminal(charAt(s, i + 1))})
         [] src = "\\s+[.!?]" ->
              firstIndex({i \in 0..(Len(s) - 2) :
                  isSpace(charAt(s, i)) /\ \E j \in afterSpaces(s, i) : isTerminal(charAt(s, j))})
         [] src = "[.!?](?=[a-zA-Z])" ->
              firstIndex({i \in 0..(Len(s) - 2) : isTerminal(charAt(s, i)) /\ isLetter(charAt(s, i + 1))})
         [] src = "(?<=[a-zA-Z]),(?=[a-zA-Z])" ->
              firstIndex({i \in 1..(Len(s) - 2) :
                  charAt(s, i) = "," /\ isLetter(charAt(s, i - 1)) /\ isLetter(charAt(s, i + 1))})
         [] src = "\\b(cats|dogs|birds|people|children|women|men)\\s+is\\b" ->
              execAgreement(low, PluralNouns, "is")
         [] src = "\\b(cat|dog|bird|person|child|woman|man|caat|doog|brid)\\s+are\\b" ->
              execAgreement(low, SingularNouns, "are")
         [] src = "\\b(he|she|it)\\s+are\\b" -> execAgreement(low, {"he", "she", "it"}, "are")
         [] src = "\\b(they|we|you)\\s+is\\b" -> execAgreement(low, {"they", "we", "you"}, "is")
         [] src = "\\b(the|a|an)\\s+\\w+\\s+are\\b" -> execDeterminer(low)
         [] src = "\\b(went|walked|ran|drove|ate|bought)\\b.*\\band\\s+(go|walk|run|drive|eat|buy)\\b" ->
              execTense(low, PastVerbs, PresentVerbs)
         [] src = "\\b(go|walk|run|drive|eat|buy)\\b.*\\band\\s+(went|walked|ran|drove|ate|bought)\\b" ->
              execTense(low, PresentVerbs, PastVerbs)
         \* any other source the model uses is a literal word
         [] OTHER -> IF ci THEN indexOf(low, toLowerCase(src)) ELSE indexOf(s, src)

-----------------------------------------------------------------------------
(* JavaScript values handed to the entry points                            *)

Str(s) == [t |-> "string", s |-> s]
Num(n) == [t |-> "number", s |-> n]
Undefined == [t |-> "undefined", s |-> ""]
Obj == [t |-> "object", s |-> "{}"]

\* !v is false
truthy(v) ==
    CASE v.t = "string" -> v.s # ""
      [] v.t = "number" -> v.s \notin {"0", "NaN"}
      [] v.t = "object" -> TRUE
      [] OTHER -> FALSE

\* v.trim is a function: only strings have one
hasTrim(v) == v.t = "string"

-----------------------------------------------------------------------------
(* Grammar engine: tables                                                  *)

NoSuggestion == "undefined"

Misspelled == <<"caat", "eror", "runing", "quikly", "wrold", "recieve", "seperate", "definately">>
Corrected == <<"cat", "error", "running", "quickly", "world", "receive", "separate", "definitely">>

\* COMMON_MISSPELLINGS[word]
COMMON_MISSPELLINGS(word) == Corrected[CHOOSE i \in 1..Len(Misspelled) : Misspelled[i] = word]

Rule(type, source, flags, message, severity) ==
    [type |-> type, pattern |-> [source |-> source, flags |-> flags],
     message |-> message, severity |-> severity]

DefaultGrammarRules == <<
    Rule("punctuation", "^[A-Z][^.!?]*[a-zA-Z]\\s*$", "", "Missing period at end of sentence", "error"),
    Rule("punctuation", "\\s{2,}", "g", "Multiple consecutive spaces should be single space", "warning"),
    Rule("punctuation", "[.!?]{2,}", "g", "Multiple consecutive punctuation marks", "warning"),
    Rule("punctuation", "\\s+[.!?]", "g", "Space before punctuation mark", "error"),
    Rule("punctuation", "[.!?](?=[a-zA-Z])", "g", "Missing space after punctuation mark", "error"),
    Rule("punctuation", "(?<=[a-zA-Z]),(?=[a-zA-Z])", "g", "Missing space after comma", "error"),
    Rule("subject-verb-agreement", "\\b(cats|dogs|birds|people|children|women|men)\\s+is\\b", "i",
         "Subject-verb agreement error: plural subject requires \"are\"", "error"),
    Rule("subject-verb-agreement", "\\b(cat|dog|bird|person|child|woman|man|caat|doog|brid)\\s+are\\b", "i",
         "Subject-verb agreement error: singular subject requires \"is\"", "error"),
    Rule("subject-verb-agreement", "\\b(he|she|it)\\s+are\\b", "i",
         "Subject-verb agreement error: singular pronoun requires \"is\"", "error"),
    Rule("subject-verb-agreement", "\\b(they|we|you)\\s+is\\b", "i",
         "Subject-verb agreement error: plural pronoun requires \"are\"", "error"),
    Rule("subject-verb-agreement", "\\b(the|a|an)\\s+\\w+\\s+are\\b", "i",
         "Subject-verb agreement error: singular subject with determiner requires \"is\"", "error"),
    Rule("tense-consistency",
         "\\b(went|walked|ran|drove|ate|bought)\\b.*\\band\\s+(go|walk|run|drive|eat|buy)\\b", "i",
         "Tense inconsistency: mixing past and present tense", "error"),
    Rule("tense-consistency",
         "\\b(go|walk|run|drive|eat|buy)\\b.*\\band\\s+(went|walked|ran|drove|ate|bought)\\b", "i",
         "Tense inconsistency: mixing present and past tense", "error") >>

RuleTypes == {"spelling", "punctuation", "subject-verb-agreement", "tense-consistency"}

-----------------------------------------------------------------------------
(* Grammar engine: checking one line                                       *)

Issue(type, message, line, column, suggestion) ==
    [type |-> type, message |-> message, line |-> line, column |-> column,
     suggestion |-> suggestion]

\* The loop of checkSpellingFast from known word i on, with `results` so far.
\* `low` is line.toLowerCase(), which the source recomputes for every word.
RECURSIVE spellingLoop(_, _, _, _, _)
spellingLoop(line, low, lineNumber, i, results) ==
    IF i > Len(Misspelled) THEN results
    ELSE LET word == Misspelled[i]
             index == indexOf(low, word)
             beforeChar == IF index > 0 THEN charAt(line, index - 1) ELSE " "
             afterChar == IF index + Len(word) < Len(line)
                          THEN charAt(line, index + Len(word)) ELSE " "
             hit == index # -1 /\ ~isWordChar(beforeChar) /\ ~isWordChar(afterChar)
             next == IF hit
                     THEN Append(results,
                            Issue("spelling",
                                  "Possible spelling error: \"" \o word \o "\" should be \""
                                      \o COMMON_MISSPELLINGS(word) \o "\"",
                                  lineNumber, index + 1, COMMON_MISSPELLINGS(word)))
                     ELSE results
         IN IF hit /\ Len(next) >= 2 THEN next
            ELSE spellingLoop(line, low, lineNumber, i + 1, next)

checkSpellingFast(line, lineNumber) == spellingLoop(line, toLowerCase(line), lineNumber, 1, <<>>)

\* The loop of checkGrammarRulesFast over `rules` from rule i on.
RECURSIVE rulesLoop(_, _, _, _, _)
rulesLoop(rules, line, lineNumber, i, results) ==
    IF i > Len(rules) THEN results
    ELSE LET rule == rules[i]
             index == exec(rule.pattern, line)
             next == IF index # -1
                     THEN Append(results,
                            Issue(rule.type, rule.message, lineNumber, index + 1, NoSuggestion))
                     ELSE results
         IN IF index # -1 /\ Len(next) >= 3 THEN next
            ELSE rulesLoop(rules, line, lineNumber, i + 1, next)

checkGrammarRulesFast(rules, line, lineNumber) == rulesLoop(rules, line, lineNumber, 1, <<>>)

processLineFast(rules, line, lineNumber) ==
    checkSpellingFast(line, lineNumber) \o checkGrammarRulesFast(rules, line, lineNumber)

RECURSIVE processLines(_, _, _)
processLines(rules, lines, i) ==
    IF i > Len(lines) THEN <<>>
    ELSE processLineFast(rules, lines[i], i) \o processLines(rules, lines, i + 1)

\* What checkGrammar computes for `sentence` when the cache does not answer.
issuesOf(rules, sentence) ==
    IF ~includes(sentence, "\n")
    THEN processLineFast(rules, sentence, 1)
    ELSE processLines(rules, split(sentence, "\n"), 1)

GrammarTexts == {"Hello", " Hello", "The caat are here", "The cats is running.", "Ok."}

\* The issue lists of the sample texts under the default rules, computed once.
defaultIssues == [s \in GrammarTexts |-> issuesOf(DefaultGrammarRules, s)]

computeIssues(rules, sentence) ==
    IF rules = DefaultGrammarRules /\ sentence \in GrammarTexts
    THEN defaultIssues[sentence]
    ELSE issuesOf(rules, sentence)

-----------------------------------------------------------------------------
(* Grammar engine: the result cache                                        *)

\* 100 in the source (const CACHE_SIZE_LIMIT); scaled down so that the
\* sample texts fill the cache and force evictions.
CACHE_SIZE_LIMIT == 3

\* Stores are not made while this many expiry timers are pending.
MaxTimers == 5

mapHas(m, k) == \E i \in 1..Len(m) : m[i].key = k
mapGet(m, k) == m[CHOOSE i \in 1..Len(m) : m[i].key = k].value

\* Map.prototype.delete: the other entries keep their order.
RECURSIVE mapDelete(_, _)
mapDelete(m, k) ==
    IF m = <<>> THEN <<>>
    ELSE IF Head(m).key = k THEN Tail(m)
    ELSE <<Head(m)>> \o mapDelete(Tail(m), k)

\* Map.prototype.set: a present key keeps its place, a new key goes last.
mapSet(m, k, v) ==
    IF mapHas(m, k)
    THEN [i \in 1..Len(m) |-> IF m[i].key = k THEN [key |-> k, value |-> v] ELSE m[i]]
    ELSE Append(m, [key |-> k, value |-> v])

\* A cache that would drop its newest entry instead of its oldest.
evictNewestKey(cache) ==
    IF Len(cache) >= CACHE_SIZE_LIMIT THEN cache[Len(cache)].key ELSE ""

\* The key setCachedResult deletes before it stores: the first key of the
\* map when the map is full (and the key is truthy), else none ("").
evictedKey(cache) ==
    IF Len(cache) >= CACHE_SIZE_LIMIT /\ cache[1].key # "" THEN cache[1].key ELSE ""

\* processingCache after setCachedResult(text, result), the timer aside.
setCachedResult(cache, text, result) ==
    LET firstKey == evictedKey(cache)
        kept == IF firstKey # "" THEN mapDelete(cache, firstKey) ELSE cache
    IN mapSet(kept, text, result)

\* Keys in the order of their last store (history).
RECURSIVE without(_, _)
without(seq, k) ==
    IF seq = <<>> THEN <<>>
    ELSE IF Head(seq) = k THEN without(Tail(seq), k)
    ELSE <<Head(seq)>> \o without(Tail(seq), k)

-----------------------------------------------------------------------------
(* Grammar engine: checkGrammar                                            *)

Call(op, input, outcome, result, note) ==
    [op |-> op, input |-> input, outcome |-> outcome, result |-> result, note |-> note]

\* The texts and other values the model hands to the text entry points.
InvalidInputs == {Str(""), Str("  "), Num("5"), Num("0"), Undefined, Obj}
GrammarInputs == {Str(s) : s \in GrammarTexts} \cup {Str(""), Str("  "), Num("5")}

\* checkGrammar rejects the input and returns [] without touching the cache.
grammarInputRejected(v) == ~truthy(v) \/ v.t # "string" \/ Len(trim(v.s)) = 0

\* One call of checkGrammar on the table `rules` and the cache `cache`: the
\* issues it returns, the cache it leaves, and the key it has stored ("" when
\* it stores nothing).
Checked(results, note, cache, stored) ==
    [results |-> results, note |-> note, cache |-> cache, stored |-> stored]

storeChecked(cache, key, results) ==
    Checked(results,
            IF evictedKey(cache) # "" THEN "evicted:" \o evictedKey(cache) ELSE "stored",
            setCachedResult(cache, key, results), key)

checkGrammar(rules, cache, v) ==
    IF grammarInputRejected(v) THEN Checked(<<>>, "invalid", cache, "")
    ELSE IF mapHas(cache, trim(v.s)) THEN Checked(mapGet(cache, trim(v.s)), "hit", cache, "")
    ELSE storeChecked(cache, trim(v.s), computeIssues(rules, v.s))

\* The effect of the call `c` on the cache, its expiry timers and the store history.
cacheUpdate(c) ==
    IF c.stored = "" THEN UNCHANGED <<processingCache, cacheTimers, storeOrder>>
    ELSE /\ Len(cacheTimers) < MaxTimers
         /\ processingCache' = c.cache
         /\ cacheTimers' = Append(cacheTimers, c.stored)
         /\ storeOrder' = Append(without(without(storeOrder, evictedKey(processingCache)),
                                         c.stored), c.stored)

returnChecked(v, c) == ret' = Call("checkGrammar", v, "return", c.results, c.note)

CheckGrammar(v) ==
    /\ returnChecked(v, checkGrammar(GRAMMAR_RULES, processingCache, v))
    /\ cacheUpdate(checkGrammar(GRAMMAR_RULES, processingCache, v))
    /\ UNCHANGED <<GRAMMAR_RULES, STYLE_RULES, debounceVars, serviceVars>>

\* The auto-expiry timer of the oldest pending store fires: timers of one
\* delay (CACHE_TTL) run in the order they were set.
CacheTimerFires ==
    /\ cacheTimers # <<>>
    /\ processingCache' = mapDelete(processingCache, Head(cacheTimers))
    /\ storeOrder' = without(storeOrder, Head(cacheTimers))
    /\ cacheTimers' = Tail(cacheTimers)
    /\ UNCHANGED <<GRAMMAR_RULES, STYLE_RULES, ret, debounceVars, serviceVars>>

-----------------------------------------------------------------------------
(* Rule-table reconfiguration                                              *)

\* One rule of a configuration file; a missing property is "" (both are falsy).
Entry(type, pattern, flags, message, explanation, severity, replacement) ==
    [type |-> type, pattern |-> pattern, flags |-> flags, message |-> message,
     explanation |-> explanation, severity |-> severity, replacement |-> replacement]

\* What fs.readFileSync and JSON.parse give for a path: `file` is "ok",
\* "unreadable" (readFileSync throws) or "malformed" (JSON.parse throws);
\* `isArray` is Array.isArray(config.rules).
Config(file, isArray, rules) == [file |-> file, isArray |-> isArray, rules |-> rules]

\* String(index) for the indices the sample configurations have.
indexString(i) == SubSeq(DIGIT, i + 1, i + 1)

Loaded(error, rules) == [error |-> error, rules |-> rules]

\* config.rules.map(...) of loadRulesFromConfig from entry i on (1-based here,
\* `index` of the source is i - 1); the first invalid entry throws.
RECURSIVE mapGrammarRules(_, _, _)
mapGrammarRules(entries, i, acc) ==
    IF i > Len(entries) THEN Loaded("", acc)
    ELSE LET rule == entries[i]
             index == indexString(i - 1)
         IN IF rule.type = "" \/ rule.pattern = "" \/ rule.message = "" \/ rule.severity = ""
            THEN Loaded("Rule at index " \o index \o " is missing required properties", <<>>)
            ELSE IF rule.type \notin RuleTypes
            THEN Loaded("Invalid rule type: " \o rule.type \o " at index " \o index, <<>>)
            ELSE IF rule.severity \notin {"error", "warning"}
            THEN Loaded("Invalid severity: " \o rule.severity \o " at index " \o index, <<>>)
            ELSE IF regExpThrows(rule.pattern, rule.flags)
            THEN Loaded("Invalid regex pattern at index " \o index \o ": " \o rule.pattern, <<>>)
            ELSE mapGrammarRules(entries, i + 1,
                     Append(acc, Rule(rule.type, rule.pattern, rule.flags, rule.message, rule.severity)))

\* The try block of loadRulesFromConfig up to the replacement of the table.
readGrammarConfig(config) ==
    IF config.file = "unreadable" THEN Loaded("ENOENT: no such file or directory", <<>>)
    ELSE IF config.file = "malformed" THEN Loaded("Unexpected token in JSON", <<>>)
    ELSE IF ~config.isArray THEN Loaded("Configuration must contain a \"rules\" array", <<>>)
    ELSE mapGrammarRules(config.rules, 1, <<>>)

\* A loader that would empty the table before it validates the entries.
installUnvalidated(table, loaded) == loaded.rules

\* A loader that would push the loaded rules without emptying the table.
installAppended(table, loaded) == IF loaded.error # "" THEN table ELSE table \o loaded.rules

\* GRAMMAR_RULES after loadRulesFromConfig has read `loaded`.
installGrammarRules(table, loaded) == IF loaded.error # "" THEN table ELSE loaded.rules

LoadRulesFromConfig(config) ==
    LET loaded == readGrammarConfig(config)
    IN /\ GRAMMAR_RULES' = installGrammarRules(GRAMMAR_RULES, loaded)
       /\ ret' = IF loaded.error # ""
                 THEN Call("loadRulesFromConfig", config, "throw",
                           "Failed to load grammar rules: " \o loaded.error, "")
                 ELSE Call("loadRulesFromConfig", config, "return", "undefined",
                           IF GRAMMAR_RULES = loaded.rules THEN "table registered before" ELSE "")
       /\ UNCHANGED <<STYLE_RULES, processingCache, cacheTimers, storeOrder, debounceVars,
                    serviceVars>>

StyleRule(type, source, flags, message, explanation, severity, replacement) ==
    [type |-> type, pattern |-> [source |-> source, flags |-> flags], message |-> message,
     explanation |-> explanation, severity |-> severity, replacement |-> replacement]

DefaultStyleRules == <<
    StyleRule("passive-voice", "\\b(was|were|is|are|been|be)\\s+\\w+\\s+by\\b", "gi",
              "Consider using active voice instead of passive voice",
              "Active voice makes writing more direct and engaging than passive voice.",
              "warning", "passive"),
    StyleRule("wordiness", "\\bin order to\\b", "gi",
              "Replace wordy phrase with simpler alternative",
              "Concise writing is more effective.", "info", "To"),
    StyleRule("wordiness", "\\bdue to the fact that\\b", "gi",
              "Replace wordy phrase with simpler alternative",
              "Concise writing is more effective.", "info", "because"),
    StyleRule("vague-language", "\\b(thing|stuff|very|really|quite|pretty)\\b", "gi",
              "Avoid vague language - consider using more specific words",
              "Specific words convey meaning more effectively.", "info", "undefined"),
    StyleRule("redundancy", "\\b(personally believe|in my opinion|I think that)\\b", "gi",
              "Remove redundant phrase",
              "These phrases add no meaningful information.", "warning", "undefined"),
    StyleRule("redundancy", "\\b(absolutely essential|completely finished|totally unique)\\b", "gi",
              "Remove redundant modifier",
              "These adjectives are already implied by the noun.", "warning", "undefined") >>

\* Function bodies that new Function('match', body) rejects.
InvalidScripts == {"return ("}

\* config.rules.map(...) of loadStyleGuide; the compilation of the pattern and
\* of the replacement script share one try block and one message.
RECURSIVE mapStyleRules(_, _, _)
mapStyleRules(entries, i, acc) ==
    IF i > Len(entries) THEN Loaded("", acc)
    ELSE LET rule == entries[i]
             index == indexString(i - 1)
         IN IF \/ rule.type = "" \/ rule.pattern = "" \/ rule.message = ""
               \/ rule.explanation = "" \/ rule.severity = ""
            THEN Loaded("Rule at index " \o index \o " is missing required properties", <<>>)
            ELSE IF rule.severity \notin {"info", "warning", "error"}
            THEN Loaded("Invalid severity: " \o rule.severity \o " at index " \o index, <<>>)
            ELSE IF regExpThrows(rule.pattern, rule.flags) \/ rule.replacement \in InvalidScripts
            THEN Loaded("Invalid regex pattern at index " \o index \o ": " \o rule.pattern, <<>>)
            ELSE mapStyleRules(entries, i + 1,
                     Append(acc, StyleRule(rule.type, rule.pattern, rule.flags, rule.message,
                                           rule.explanation, rule.severity,
                                           IF rule.replacement # "" THEN rule.replacement
                                           ELSE "undefined")))

readStyleConfig(config) ==
    IF config.file = "unreadable" THEN Loaded("ENOENT: no such file or directory", <<>>)
    ELSE IF config.file = "malformed" THEN Loaded("Unexpected token in JSON", <<>>)
    ELSE IF ~config.isArray THEN Loaded("Configuration must contain a \"rules\" array", <<>>)
    ELSE mapStyleRules(config.rules, 1, <<>>)

\* STYLE_RULES after loadStyleGuide has read `loaded`.
installStyleRules(table, loaded) == IF loaded.error # "" THEN table ELSE loaded.rules

LoadStyleGuide(config) ==
    LET loaded == readStyleConfig(config)
    IN /\ STYLE_RULES' = installStyleRules(STYLE_RULES, loaded)
       /\ ret' = IF loaded.error # ""
                 THEN Call("loadStyleGuide", config, "throw",
                           "Failed to load style guide: " \o loaded.error, "")
                 ELSE Call("loadStyleGuide", config, "return", "undefined",
                           IF STYLE_RULES = loaded.rules THEN "table registered before" ELSE "")
       /\ UNCHANGED <<GRAMMAR_RULES, processingCache, cacheTimers, storeOrder, debounceVars,
                    serviceVars>>

-----------------------------------------------------------------------------
(* String replacement, as the rewrite engine uses it                       *)

startsWith(s, w) == occursAt(s, w, 0)
endsWith(s, w) == occursAt(s, w, Len(s) - Len(w))

\* s.slice(from) and s.slice(0, -n)
sliceFrom(s, from) == SubSeq(s, from + 1, Len(s))
dropLast(s, n) == SubSeq(s, 1, Len(s) - n)

\* s.charAt(0).toUpperCase() + s.slice(1), and the same with toLowerCase
upperFirst(s) == IF s = "" THEN "" ELSE upperChar(Head(s)) \o Tail(s)
lowerFirst(s) == IF s = "" THEN "" ELSE lowerChar(Head(s)) \o Tail(s)

\* synonym.charAt(0).toUpperCase() + synonym.slice(1).toLowerCase()
capitalize(s) == IF s = "" THEN "" ELSE upperChar(Head(s)) \o toLowerCase(Tail(s))

\* list.slice(0, n)
sliceTo(list, n) == SubSeq(list, 1, IF Len(list) < n THEN Len(list) ELSE n)

\* words.join(sep)
RECURSIVE join(_, _)
join(words, sep) ==
    IF words = <<>> THEN ""
    ELSE IF Len(words) = 1 THEN words[1]
    ELSE words[1] \o sep \o join(Tail(words), sep)

\* s.replace(/w/g, r) for a literal w, scanning from index i; `hay` is s, or
\* s in lower case when the pattern carries the i flag (w is then lower case).
RECURSIVE replaceFrom(_, _, _, _, _)
replaceFrom(s, hay, w, r, i) ==
    LET at == indexOfFrom(hay, w, i)
    IN IF at = -1 THEN sliceFrom(s, i)
       ELSE SubSeq(s, i + 1, at) \o r \o replaceFrom(s, hay, w, r, at + Len(w))

replaceAll(s, w, r) == replaceFrom(s, s, w, r, 0)
replaceAllIgnoreCase(s, w, r) == replaceFrom(s, toLowerCase(s), w, r, 0)

\* The first index >= i where the whole word w stands in hay (/\bw\b/), or -1.
wordIndexFrom(hay, w, i) ==
    firstIndex({p \in i..(Len(hay) - Len(w)) :
        occursAt(hay, w, p) /\ wordBoundary(hay, p) /\ wordBoundary(hay, p + Len(w))})

\* s.replace(/\bw\b/g, r)
RECURSIVE replaceWordFrom(_, _, _, _)
replaceWordFrom(s, w, r, i) ==
    LET at == wordIndexFrom(s, w, i)
    IN IF at = -1 THEN sliceFrom(s, i)
       ELSE SubSeq(s, i + 1, at) \o r \o replaceWordFrom(s, w, r, at + Len(w))

replaceWord(s, w, r) == replaceWordFrom(s, w, r, 0)

\* s.replace(/\bw\b/gi, match => ...) of generateFallbackSynonymRewrite: a
\* match whose first character is its own upper case gets the capitalized
\* synonym, any other match the synonym in lower case.
RECURSIVE replaceWordKeepCase(_, _, _, _, _)
replaceWordKeepCase(s, low, w, synonym, i) ==
    LET at == wordIndexFrom(low, w, i)
    IN IF at = -1 THEN sliceFrom(s, i)
       ELSE SubSeq(s, i + 1, at)
            \o (IF charAt(s, at) = upperChar(charAt(s, at))
                THEN capitalize(synonym) ELSE toLowerCase(synonym))
            \o replaceWordKeepCase(s, low, w, synonym, at + Len(w))

-----------------------------------------------------------------------------
(* Rewrite engine: synonym rewrites                                        *)

\* An EnhancedToken as enrichment returns it.
Token(text, pos, synonyms) == [text |-> text, pos |-> pos, synonyms |-> synonyms]

ContentTags == {"Noun", "Verb", "Adjective", "Adverb"}

\* token.synonyms filtered for the tone.
availableSynonyms(synonyms, tone) ==
    LET long(syn) == Len(syn) > 4
        short(syn) == Len(syn) <= 6
    IN IF tone = "formal" THEN SelectSeq(synonyms, long)
       ELSE IF tone = "casual" THEN SelectSeq(synonyms, short)
       ELSE synonyms

\* The token is one whose text is replaced by a synonym.
takesSynonym(token, tone) ==
    /\ token.pos \in ContentTags
    /\ Len(token.synonyms) > 0
    /\ Len(availableSynonyms(token.synonyms, tone)) > 0

\* token.text[0].toUpperCase() throws a TypeError for a token without text.
synonymRewriteThrows(tokens, tone) ==
    \E i \in 1..Len(tokens) : takesSynonym(tokens[i], tone) /\ tokens[i].text = ""

rewrittenToken(token, tone) ==
    IF takesSynonym(token, tone)
    THEN LET synonym == availableSynonyms(token.synonyms, tone)[1]
         IN IF charAt(token.text, 0) = upperChar(charAt(token.text, 0))
            THEN capitalize(synonym) ELSE toLowerCase(synonym)
    ELSE token.text

generateSynonymRewrite(tokens, tone) ==
    join([i \in 1..Len(tokens) |-> rewrittenToken(tokens[i], tone)], " ")

\* synonymMap of generateFallbackSynonymRewrite, in the order of its keys.
SynonymWords == <<"large", "beautiful", "building", "quick", "excellent">>
SynonymLists == <<
    <<"big", "huge", "enormous", "massive">>,
    <<"gorgeous", "stunning", "lovely", "attractive">>,
    <<"structure", "edifice", "construction", "facility">>,
    <<"fast", "rapid", "swift", "speedy">>,
    <<"outstanding", "superb", "remarkable", "exceptional">> >>

\* The synonym the fallback picks from a list: the first one, or the first
\* one the tone filter keeps when it keeps any.
fallbackSynonym(synonyms, tone) ==
    LET kept == availableSynonyms(synonyms, tone)
    IN IF tone \in {"formal", "casual"} /\ Len(synonyms) > 1 /\ Len(kept) > 0
       THEN kept[1] ELSE synonyms[1]

\* The loop over the synonym map from entry i on.
RECURSIVE fallbackLoop(_, _, _)
fallbackLoop(result, tone, i) ==
    IF i > Len(SynonymWords) THEN result
    ELSE LET low == toLowerCase(result)
             word == SynonymWords[i]
         IN IF wordIndexFrom(low, word, 0) # -1
            THEN fallbackLoop(replaceWordKeepCase(result, low, word,
                                  fallbackSynonym(SynonymLists[i], tone), 0), tone, i + 1)
            ELSE fallbackLoop(result, tone, i + 1)

generateFallbackSynonymRewrite(sentence, tone) == fallbackLoop(sentence, tone, 1)

-----------------------------------------------------------------------------
(* Rewrite engine: structure rewrites                                      *)

\* The index behind the longest run of whitespace (word characters) at i;
\* i itself when there is none.
skipSpaces(s, i) == LET J == afterSpaces(s, i) IN IF J = {} THEN i ELSE CHOOSE j \in J : \A k \in J : k <= j
skipWord(s, i) == LET J == afterWord(s, i) IN IF J = {} THEN i ELSE CHOOSE j \in J : \A k \in J : k <= j

\* The index behind the longest run of characters other than line breaks at i (.*).
RECURSIVE skipLine(_, _)
skipLine(s, i) == IF i < Len(s) /\ charAt(s, i) # "\n" THEN skipLine(s, i + 1) ELSE i

ListedParticiples == {
    "written", "completed", "analyzed", "done", "made", "given", "taken", "spoken",
    "created", "developed", "implemented", "designed", "built", "established", "formed",
    "conducted", "performed", "executed", "delivered", "processed", "handled", "managed",
    "controlled", "directed", "supervised", "operated", "maintained"}

NoMatch == [found |-> FALSE, subject |-> "", auxiliary |-> "", verb |-> "", agent |-> ""]

\* One of the passivePatterns, all of the form
\*   /(.+?)\s+(aux)\s+[middle\s+](verb)\s+by\s+(.+)/i
\* `auxiliaries` are the alternatives of the second group, `middle` is ""
\* or the fixed word between auxiliary and verb, and `listed` tells whether
\* the verb group is the list of participles or \w+ed.  The operators below
\* match the rest of the pattern behind the subject, piece by piece, on the
\* lower-cased text `low`; -1 or NoMatch says that the piece does not match.

\* \s+ at i: the index behind the whitespace, or -1 when there is none.
spacesAt(low, i) == IF i >= 0 /\ skipSpaces(low, i) > i THEN skipSpaces(low, i) ELSE -1

\* (aux)\s+ at a: the index behind it.
auxiliaryAt(low, a, auxiliaries) ==
    firstIndex({spacesAt(low, a + Len(x)) : x \in {y \in auxiliaries : occursAt(low, y, a)}} \ {-1})

\* [middle\s+] at b: the index behind it.
middleAt(low, b, middle) ==
    IF middle = "" \/ b = -1 THEN b
    ELSE IF occursAt(low, middle, b) THEN spacesAt(low, b + Len(middle)) ELSE -1

\* (verb) between m and e, then \s+by\s+: the index where whitespace follows "by".
byAt(low, m, e, listed) ==
    IF /\ m >= 0
       /\ IF listed THEN SubSeq(low, m + 1, e) \in ListedParticiples
          ELSE e - m >= 3 /\ occursAt(low, "ed", e - 2)
       /\ occursAt(low, "by", spacesAt(low, e))
    THEN spacesAt(low, e) + 2 ELSE -1

\* \s+(.+) at w: where the agent starts.  \s+ gives whitespace back to
\* (.+) when the text ends behind it; . matches no line break.
agentAt(s, w) ==
    IF w = -1 THEN -1
    ELSE LET starts == {q \in (w + 1)..skipSpaces(s, w) : q < Len(s) /\ charAt(s, q) # "\n"}
         IN IF starts = {} THEN -1 ELSE CHOOSE q \in starts : \A r \in starts : r <= q

\* The groups of a match whose auxiliary starts at a, verb at m and agent at q.
passiveGroups(s, a, b, m, q) ==
    IF q = -1 THEN NoMatch
    ELSE [found |-> TRUE, subject |-> "",
          auxiliary |-> trimEnd(SubSeq(s, a + 1, b)),
          verb |-> SubSeq(s, m + 1, skipWord(s, m)),
          agent |-> SubSeq(s, q + 1, skipLine(s, q))]

passiveFromVerb(s, low, a, b, m, listed) ==
    passiveGroups(s, a, b, m, agentAt(s, byAt(low, m, skipWord(low, m), listed)))

passiveFromAuxiliary(s, low, a, b, middle, listed) ==
    IF b = -1 THEN NoMatch
    ELSE passiveFromVerb(s, low, a, b, middleAt(low, b, middle), listed)

\* The rest of the pattern behind a subject that ends at j.
passiveTail(s, low, j, auxiliaries, middle, listed) ==
    IF spacesAt(low, j) = -1 THEN NoMatch
    ELSE passiveFromAuxiliary(s, low, spacesAt(low, j),
             auxiliaryAt(low, spacesAt(low, j), auxiliaries), middle, listed)

\* The 0-based index of the first character of the line that holds index j.
RECURSIVE lineStart(_, _)
lineStart(s, j) == IF j > 0 /\ charAt(s, j - 1) # "\n" THEN lineStart(s, j - 1) ELSE j

\* The match whose subject ends at j, if any.
passiveWithSubject(s, low, j, auxiliaries, middle, listed) ==
    IF j = -1 THEN NoMatch
    ELSE [passiveTail(s, low, j, auxiliaries, middle, listed)
              EXCEPT !.subject = SubSeq(s, lineStart(s, j) + 1, j)]

\* sentence.match(pattern): the lazy subject ends at the first index where
\* the rest of the pattern matches, and starts as far left as its line allows.
matchPassive(s, low, auxiliaries, middle, listed) ==
    passiveWithSubject(s, low,
        firstIndex({j \in 1..Len(s) :
            lineStart(s, j) < j /\ passiveTail(s, low, j, auxiliaries, middle, listed).found}),
        auxiliaries, middle, listed)

\* irregularVerbs of convertToActiveVerb: the entries that change the verb;
\* every other entry maps a participle to itself.
IrregularVerbs ==
    [written |-> "wrote", taken |-> "took", given |-> "gave", spoken |-> "spoke", done |-> "did"]

convertToActiveVerb(verb, auxiliary) ==
    IF verb \in DOMAIN IrregularVerbs THEN IrregularVerbs[verb]
    ELSE IF verb \in ListedParticiples \ {"formed", "delivered", "processed"} THEN verb
    ELSE IF endsWith(verb, "ed") /\ auxiliary \in {"is", "are"}
    THEN IF endsWith(verb, "ied") THEN dropLast(verb, 3) \o "y"
         ELSE IF endsWith(verb, "pped") \/ endsWith(verb, "tted") \/ endsWith(verb, "nned")
         THEN dropLast(verb, 3)
         ELSE dropLast(verb, 2)
    ELSE verb

\* agent.trim().replace(/yesterday\.?$/, '').trim()
cleanAgent(agent) ==
    LET a == trim(agent)
    IN trim(IF endsWith(a, "yesterday.") THEN dropLast(a, 10)
            ELSE IF endsWith(a, "yesterday") THEN dropLast(a, 9)
            ELSE a)

timeReference(sentence) ==
    IF includes(sentence, "yesterday") THEN " yesterday"
    ELSE IF includes(sentence, "today") THEN " today"
    ELSE IF includes(sentence, "tomorrow") THEN " tomorrow"
    ELSE ""

\* The first match in a list of match results.
RECURSIVE firstFound(_)
firstFound(matches) ==
    IF matches = <<>> THEN NoMatch
    ELSE IF Head(matches).found THEN Head(matches) ELSE firstFound(Tail(matches))

\* The first of the four passive patterns that matches the sentence.
passiveMatches(sentence, low) ==
    firstFound(<<matchPassive(sentence, low, {"was", "were", "is", "are"}, "", TRUE),
                 matchPassive(sentence, low, {"was", "were", "is", "are"}, "", FALSE),
                 matchPassive(sentence, low, {"was", "were", "is", "are"}, "being", FALSE),
                 matchPassive(sentence, low, {"have", "has"}, "been", FALSE)>>)

activeVersion(m, sentence) ==
    upperFirst(cleanAgent(m.agent)) \o " " \o convertToActiveVerb(m.verb, m.auxiliary) \o " "
        \o toLowerCase(trim(m.subject)) \o timeReference(sentence) \o "."

\* The active-voice rewrite of generateStructureRewrites: at most one.
activeFrom(m, sentence) ==
    IF m.found /\ activeVersion(m, sentence) # sentence
               /\ Len(trim(activeVersion(m, sentence))) > 0
    THEN <<activeVersion(m, sentence)>> ELSE <<>>

activeRewrites(sentence) == activeFrom(passiveMatches(sentence, toLowerCase(sentence)), sentence)

WordyPhrases == <<"in order to", "due to the fact that", "for the reason that",
                  "in spite of the fact that", "with regard to", "give consideration to",
                  "make a decision", "reach a conclusion">>
ConcisePhrases == <<"to", "because", "because", "although", "about", "consider",
                    "decide", "conclude">>

\* A chain of s.replace(/from[i]/g, to[i]) from entry i on; lower-cased
\* matching when ignoreCase.
RECURSIVE replaceEach(_, _, _, _, _)
replaceEach(s, from, to, ignoreCase, i) ==
    IF i > Len(from) THEN s
    ELSE replaceEach(IF ignoreCase THEN replaceAllIgnoreCase(s, from[i], to[i])
                     ELSE replaceAll(s, from[i], to[i]),
                     from, to, ignoreCase, i + 1)

conciseRewrites(sentence) ==
    LET conciseVersion == replaceEach(sentence, WordyPhrases, ConcisePhrases, TRUE, 1)
    IN IF conciseVersion # sentence THEN <<conciseVersion>> ELSE <<>>

Contractions == <<"can't", "don't", "won't", "it's", "we're", "they're", "isn't", "aren't">>
Expansions == <<"cannot", "do not", "will not", "it is", "we are", "they are", "is not", "are not">>

FormalWords == <<"requires immediate attention", "careful analysis", "comprehensive",
                 "utilize", "demonstrate", "facilitate", "accomplish">>
CasualWords == <<"needs quick action", "a good look", "thorough", "use", "show", "help", "do">>

toneRewrites(sentence, tone) ==
    IF tone = "polite"
    THEN IF ~includes(sentence, "please") /\ ~includes(sentence, "would")
            /\ ~includes(sentence, "could")
         THEN <<(IF startsWith(toLowerCase(sentence), "send")
                 THEN "Could you please " ELSE "Would you please ") \o toLowerCase(sentence)>>
         ELSE <<>>
    ELSE IF tone = "formal"
    THEN LET formalVersion == replaceEach(sentence, Contractions, Expansions, FALSE, 1)
         IN IF formalVersion # sentence THEN <<formalVersion>> ELSE <<>>
    ELSE IF tone = "casual"
    THEN LET casualVersion == replaceEach(sentence, FormalWords, CasualWords, FALSE, 1)
         IN IF casualVersion # sentence THEN <<casualVersion>> ELSE <<>>
    ELSE <<>>

generateStructureRewrites(sentence, tone) ==
    LET kept(r) == r # sentence /\ Len(trim(r)) > 0
    IN SelectSeq(activeRewrites(sentence) \o conciseRewrites(sentence)
                     \o toneRewrites(sentence, tone), kept)

\* generateVariationRewrite(sentence, variation)
generateVariationRewrite(sentence, variation) ==
    LET modifiedSentence ==
            replaceWord(replaceWord(replaceWord(replaceWord(replaceWord(
                sentence, "The", "A"), "the", "a"), "and", "plus"), "over", "across"),
                "jumps", "leaps")
        words == split(sentence, " ")
        rearranged == join(Tail(words), " ") \o " " \o toLowerCase(words[1])
    IN IF variation = 1 THEN "Furthermore, " \o lowerFirst(sentence)
       ELSE IF variation = 2 /\ modifiedSentence # sentence THEN modifiedSentence
       ELSE IF variation = 2 /\ Len(words) > 3 THEN upperFirst(rearranged)
       ELSE sentence \o " (variant " \o indexString(variation) \o ")"

-----------------------------------------------------------------------------
(* Rewrite engine: rewriteSentence                                         *)

\* What `await enhancedProcessText(sentence)` gives: it rejects, or it
\* resolves to a list of tokens.
Rejected == [rejects |-> TRUE, tokens |-> <<>>]
Resolved(tokens) == [rejects |-> FALSE, tokens |-> tokens]

\* rewrites after the synonym, fallback and structure steps.
initialRewrites(sentence, tone, tokens) ==
    LET synonymRewrite == generateSynonymRewrite(tokens, tone)
        fallbackRewrite == generateFallbackSynonymRewrite(sentence, tone)
        r1 == IF synonymRewrite # sentence /\ Len(trim(synonymRewrite)) > 0
              THEN <<sentence, synonymRewrite>> ELSE <<sentence>>
        r2 == IF /\ fallbackRewrite # sentence /\ Len(trim(fallbackRewrite)) > 0
                 /\ \A i \in 1..Len(r1) : r1[i] # fallbackRewrite
              THEN Append(r1, fallbackRewrite) ELSE r1
    IN r2 \o generateStructureRewrites(sentence, tone)

\* A loop that would add nothing to the rewrites found so far.
noPadding(rewrites, sentence, tone) == rewrites

\* The loop `while (rewrites.length < 3)`.
RECURSIVE padRewrites(_, _, _)
padRewrites(rewrites, sentence, tone) ==
    IF Len(rewrites) >= 3 THEN rewrites
    ELSE LET fallback == generateFallbackSynonymRewrite(sentence, tone)
             variation == generateVariationRewrite(sentence, Len(rewrites))
         IN IF Len(rewrites) = 1 /\ fallback # sentence
            THEN padRewrites(Append(rewrites, fallback), sentence, tone)
            ELSE IF Len(trim(variation)) > 0 /\ variation # sentence
            THEN padRewrites(Append(rewrites, variation), sentence, tone)
            ELSE IF fallback # sentence
            THEN padRewrites(Append(rewrites, fallback), sentence, tone)
            ELSE padRewrites(Append(rewrites, sentence \o " (enhanced "
                                 \o indexString(Len(rewrites)) \o ")"), sentence, tone)

\* A catch block that would return the sentence once.
partialFallback(sentence) == <<sentence>>

\* The value the catch block of rewriteSentence returns.
rewriteFallback(sentence) == <<sentence, sentence, sentence>>

\* The list rewriteSentence resolves to; `duration` is the time in ms that
\* performance.now() measures for the call.
rewriteSentence(v, tone, enrichment, duration) ==
    IF ~truthy(v) \/ v.t # "string" THEN <<"">>
    ELSE IF Len(trim(v.s)) = 0 THEN <<v.s>>
    ELSE IF enrichment.rejects \/ synonymRewriteThrows(enrichment.tokens, tone)
    THEN rewriteFallback(v.s)
    ELSE IF duration > 200 THEN <<v.s, v.s, v.s>>
    ELSE sliceTo(padRewrites(initialRewrites(v.s, tone, enrichment.tokens), v.s, tone), 3)


RewriteTexts == {
    "Go", "The quick fox jumps over the dog", "The report was written by John yesterday.",
    "We can't meet in order to talk", "send it please", "A large building",
    "It is being fixed by us", "He jumps", "A quick fix in order to win" }
RewriteInputs == {Str(s) : s \in RewriteTexts} \cup {Str(""), Str("  "), Num("5"), Undefined}
Tones == {"undefined", "formal", "casual", "polite"}
Enrichments == {
    Rejected,
    Resolved(<<>>),
    Resolved(<<Token("The", "Determiner", <<>>), Token("Quick", "Adjective", <<"fast", "speedy">>),
               Token("fox", "Noun", <<>>)>>),
    Resolved(<<Token("Go", "Verb", <<"go">>)>>),
    Resolved(<<Token("He", "Pronoun", <<>>), Token("jumps", "Verb", <<"leaps">>)>>),
    Resolved(<<Token("", "Noun", <<"thing">>)>>) }
Durations == {200, 201}

\* rewriteSentence over the sample inputs, computed once.
rewriteResults ==
    [v \in RewriteInputs |-> [tone \in Tones |-> [enrichment \in Enrichments |->
        [duration \in Durations |-> rewriteSentence(v, tone, enrichment, duration)]]]]

RewriteSentence(v, tone, enrichment, duration) ==
    /\ ret' = Call("rewriteSentence",
                   [t |-> v.t, s |-> v.s, tone |-> tone, enrichment |-> enrichment,
                    duration |-> duration],
                   "resolve", rewriteResults[v][tone][enrichment][duration], "")
    /\ UNCHANGED <<rulesVars, debounceVars, serviceVars>>

-----------------------------------------------------------------------------
(* Tone detector                                                           *)

ToneNames == <<"formal", "informal", "friendly", "professional">>

\* TONE_LEXICONS[tone].words
ToneWords == [
    formal |-> <<"therefore", "furthermore", "consequently", "moreover", "nevertheless",
                 "however", "accordingly", "thus", "hence", "regarding", "concerning",
                 "pursuant", "notwithstanding">>,
    informal |-> <<"gonna", "wanna", "gotta", "yeah", "nope", "ok", "okay", "cool", "awesome",
                   "totally", "basically", "like", "you know", "kinda", "sorta">>,
    friendly |-> <<"thanks", "please", "appreciate", "wonderful", "great", "amazing",
                   "fantastic", "lovely", "nice", "kind", "helpful", "welcome", "enjoy", "hope">>,
    professional |-> <<"deliver", "implement", "execute", "optimize", "analyze", "strategic",
                       "efficient", "effective", "comprehensive", "solution", "objective",
                       "stakeholder", "collaborate", "synergy">> ]

\* TONE_LEXICONS[tone].patterns: each pattern is /\b(p1|p2|...)\b/i, given
\* here by its alternatives.
TonePatterns == [
    formal |-> <<{"it is", "one must", "it would be", "it should be"},
                 {"in conclusion", "in summary", "to summarize"}>>,
    informal |-> <<{"don't", "won't", "can't", "isn't", "aren't"},
                   {"what's up", "hey there", "sup"}>>,
    friendly |-> <<{"thank you", "thanks so much", "really appreciate"},
                   {"hope you", "wish you", "looking forward"}>>,
    professional |-> <<{"best practices", "industry standard", "key performance"},
                       {"moving forward", "next steps", "action items"}>> ]

\* (text.match(/\bword\b/gi) || []).length: the whole-word occurrences from i on.
RECURSIVE countWord(_, _, _)
countWord(low, word, i) ==
    LET at == wordIndexFrom(low, word, i)
    IN IF at = -1 THEN 0 ELSE 1 + countWord(low, word, at + Len(word))

\* (text.match(pattern) || []).length for a pattern without the g flag: a
\* match is the array of the matched text and its one group.
patternMatches(low, alternatives) ==
    IF \E a \in alternatives : wordIndexFrom(low, a, 0) # -1 THEN 2 ELSE 0

RECURSIVE sumOver(_, _)
sumOver(counts, i) == IF i > Len(counts) THEN 0 ELSE counts[i] + sumOver(counts, i + 1)

\* `score` of one tone before normalization.
rawScore(low, tone) ==
    sumOver([i \in 1..Len(ToneWords[tone]) |-> countWord(low, ToneWords[tone][i], 0)], 1)
    + sumOver([i \in 1..Len(TonePatterns[tone]) |->
                  2 * patternMatches(low, TonePatterns[tone][i])], 1)

\* text.split(/\s+/).length: one more than the number of whitespace runs.
wordCount(text) ==
    1 + Cardinality({i \in 0..(Len(text) - 1) :
                        isSpace(charAt(text, i)) /\ ~isSpace(charAt(text, i - 1))})

\* Scores are fractions num/den with den > 0.
Fraction(num, den) == [num |-> num, den |-> den]
less(a, b) == a.num * b.den < b.num * a.den

\* Math.min(1.0, score / Math.max(1, wordCount * 0.05)), with 0.08 for texts
\* of more than 10 words.
normalizedScore(score, words) ==
    LET hundredths == IF words <= 10 THEN words * 5 ELSE words * 8
        quotient == IF hundredths <= 100 THEN Fraction(score, 1)
                    ELSE Fraction(score * 100, hundredths)
    IN IF less(Fraction(1, 1), quotient) THEN Fraction(1, 1) ELSE quotient

ToneResult(tone, score) == [tone |-> tone, score |-> score]

\* The results the loop over the lexicons pushes, from tone i on.
RECURSIVE detectedTones(_, _, _)
detectedTones(low, words, i) ==
    IF i > Len(ToneNames) THEN <<>>
    ELSE LET normalized == normalizedScore(rawScore(low, ToneNames[i]), words)
             floor == Fraction(1, 10)
         IN (IF less(Fraction(5, 100), normalized)
             THEN <<ToneResult(ToneNames[i], IF less(normalized, floor) THEN floor ELSE normalized)>>
             ELSE <<>>)
            \o detectedTones(low, words, i + 1)

\* results.sort((a, b) => b.score - a.score): stable, highest score first.
RECURSIVE insertByScore(_, _)
insertByScore(sorted, r) ==
    IF sorted = <<>> THEN <<r>>
    ELSE IF less(Head(sorted).score, r.score) THEN <<r>> \o sorted
    ELSE <<Head(sorted)>> \o insertByScore(Tail(sorted), r)

RECURSIVE sortByScore(_, _)
sortByScore(results, i) ==
    IF i = 0 THEN <<>> ELSE insertByScore(sortByScore(results, i - 1), results[i])

\* The tones without a result, appended with score 0.
missingTones(results) ==
    LET missing(tone) == \A i \in 1..Len(results) : results[i].tone # tone
    IN [i \in 1..Len(SelectSeq(ToneNames, missing)) |->
            ToneResult(SelectSeq(ToneNames, missing)[i], Fraction(0, 1))]

detectTone(v) ==
    IF ~truthy(v) \/ v.t # "string" THEN <<>>
    ELSE IF Len(trim(v.s)) = 0 THEN <<>>
    ELSE LET results == detectedTones(toLowerCase(v.s), wordCount(v.s), 1)
             sortedResults == sortByScore(results, Len(results))
         IN sortedResults \o missingTones(sortedResults)


ToneTexts == {
    "ok", "Thanks, that is great", "Therefore we must deliver a solution",
    "yeah cool thanks", "Nothing to see here",
    "however we hope to see one more of the many old red cars there now ok",
    "it is nice to meet and see all of the new big red cars out there now" }
ToneInputs == {Str(s) : s \in ToneTexts} \cup {Str(""), Str("  "), Num("5"), Undefined}

\* detectTone over the sample inputs, computed once.
toneResults == [v \in ToneInputs |-> detectTone(v)]

DetectTone(v) ==
    /\ ret' = Call("detectTone", v, "resolve", toneResults[v], "")
    /\ UNCHANGED <<rulesVars, debounceVars, serviceVars>>

-----------------------------------------------------------------------------
(* Style suggestions: suggestStyle                                         *)

\* What RegExp.exec returns: the index and the text of match[0]; index -1
\* stands for null.
StyleMatch(index, text) == [index |-> index, text |-> text]
matchAt(line, i, length) ==
    IF i = -1 THEN StyleMatch(-1, "") ELSE StyleMatch(i, SubSeq(line, i + 1, i + length))

\* The length of the first alternative of (p1|p2|...)\b that matches at i; 0
\* when none does.
RECURSIVE phraseLength(_, _, _, _)
phraseLength(low, phrases, i, k) ==
    IF k > Len(phrases) THEN 0
    ELSE IF occursAt(low, phrases[k], i) /\ wordBoundary(low, i + Len(phrases[k]))
    THEN Len(phrases[k])
    ELSE phraseLength(low, phrases, i, k + 1)

phraseMatchAt(line, low, phrases, i) == matchAt(line, i, phraseLength(low, phrases, i, 1))

\* /\b(p1|p2|...)\b/gi with lastIndex = from
execPhrases(line, low, phrases, from) ==
    phraseMatchAt(line, low, phrases,
        firstIndex({i \in from..Len(low) :
            wordBoundary(low, i) /\ phraseLength(low, phrases, i, 1) > 0}))

\* The index after "by" of a match of (was|were|is|are|been|be)\s+\w+\s+by\b
\* that starts at i, or -1.
passiveStyleEnd(low, i) ==
    firstIndex({m + 2 : m \in {m \in i..Len(low) :
        /\ occursAt(low, "by", m) /\ wordBoundary(low, m + 2)
        /\ \E a \in {"was", "were", "is", "are", "been", "be"} :
              /\ occursAt(low, a, i)
              /\ \E j \in afterSpaces(low, i + Len(a)) : \E k \in afterWord(low, j) :
                     m \in afterSpaces(low, k)}})

passiveStyleAt(line, low, i) == matchAt(line, i, passiveStyleEnd(low, i) - i)

\* /\b(was|were|is|are|been|be)\s+\w+\s+by\b/gi with lastIndex = from
execPassiveStyle(line, low, from) ==
    passiveStyleAt(line, low,
        firstIndex({i \in from..Len(low) : wordBoundary(low, i) /\ passiveStyleEnd(low, i) # -1}))

\* A literal source, with lastIndex = from.
execLiteral(line, hay, w, from) == matchAt(line, indexOfFrom(hay, w, from), Len(w))

\* /\s*/ with lastIndex = from: the pattern matches at lastIndex itself, the
\* run of whitespace there or the empty string; exec answers null only when
\* lastIndex is behind the end of the line.
execOptionalSpaces(line, from) ==
    IF from > Len(line) THEN matchAt(line, -1, 0)
    ELSE matchAt(line, from, skipSpaces(line, from) - from)

\* regex.exec(line) for the regex of a style rule whose lastIndex is `from`.
execStyle(pattern, line, from) ==
    CASE pattern.source = "\\b(was|were|is|are|been|be)\\s+\\w+\\s+by\\b" ->
             execPassiveStyle(line, toLowerCase(line), from)
      [] pattern.source = "\\bin order to\\b" ->
             execPhrases(line, toLowerCase(line), <<"in order to">>, from)
      [] pattern.source = "\\bdue to the fact that\\b" ->
             execPhrases(line, toLowerCase(line), <<"due to the fact that">>, from)
      [] pattern.source = "\\b(thing|stuff|very|really|quite|pretty)\\b" ->
             execPhrases(line, toLowerCase(line),
                         <<"thing", "stuff", "very", "really", "quite", "pretty">>, from)
      [] pattern.source = "\\b(personally believe|in my opinion|I think that)\\b" ->
             execPhrases(line, toLowerCase(line),
                         <<"personally believe", "in my opinion", "i think that">>, from)
      [] pattern.source = "\\b(absolutely essential|completely finished|totally unique)\\b" ->
             execPhrases(line, toLowerCase(line),
                         <<"absolutely essential", "completely finished", "totally unique">>, from)
      [] pattern.source = "\\s*" -> execOptionalSpaces(line, from)
      [] OTHER ->
             IF includes(pattern.flags, "i")
             THEN execLiteral(line, toLowerCase(line), toLowerCase(pattern.source), from)
             ELSE execLiteral(line, line, pattern.source, from)

\* Function bodies of a configuration that throw when they are called.
ThrowingScripts == {"throw 0"}

\* rule.replacement(match) for the replacement functions of the model: the
\* three of the default table and the bodies the sample configurations name.
scriptResult(script, text) ==
    CASE script = "passive" ->
             IF includes(text, "was written by") THEN "John wrote the report" ELSE text
      [] script = "To" -> "To"
      [] script = "because" -> "because"
      [] script = "return 'the'" -> "the"
      [] OTHER -> "undefined"

\* parts[2] of text.match(/(.+)\s+was written by\s+(.+)/), "" for no match.
writtenByAgent(text, p) ==
    IF p < 2 THEN ""
    ELSE IF /\ occursAt(text, "was written by", p) /\ isSpace(charAt(text, p - 1))
            /\ isSpace(charAt(text, p + 14)) /\ Len(text) > p + 15
    THEN IF trimStart(sliceFrom(text, p + 14)) = "" THEN charAt(text, Len(text) - 1)
         ELSE trimStart(sliceFrom(text, p + 14))
    ELSE ""

RECURSIVE lastWrittenBy(_, _)
lastWrittenBy(text, p) ==
    IF p < 2 THEN ""
    ELSE IF writtenByAgent(text, p) # "" THEN writtenByAgent(text, p)
    ELSE lastWrittenBy(text, p - 1)

\* The catch block around the replacement.
replacementFailed(rule, text) ==
    IF /\ rule.type = "passive-voice" /\ includes(text, "was written by")
       /\ lastWrittenBy(text, Len(text)) # ""
    THEN lastWrittenBy(text, Len(text)) \o " wrote the report"
    ELSE NoSuggestion

\* suggestion.suggestion for a match of the rule in the line.
styleReplacement(rule, line, text) ==
    IF rule.replacement = "undefined" THEN NoSuggestion
    ELSE IF rule.type = "wordiness" /\ includes(toLowerCase(text), "in order to")
    THEN replaceAllIgnoreCase(line, "in order to", "To")
    ELSE IF rule.replacement \in ThrowingScripts THEN replacementFailed(rule, text)
    ELSE scriptResult(rule.replacement, text)

Suggestion(type, message, explanation, severity, line, column, suggestion) ==
    [type |-> type, message |-> message, explanation |-> explanation, severity |-> severity,
     line |-> line, column |-> column, suggestion |-> suggestion]

\* The while loop of checkStyleRules for one rule, `found` being what exec
\* returned: a regex without the g flag is left after its first match, one
\* with it goes on from the end of the match.
\* exec leaves lastIndex at the end of the match.  After an empty match
\* lastIndex is where the match was found, so the next exec of the loop finds
\* the same empty match and leaves lastIndex where it is: the loop is in the
\* state it was in one round before and pushes suggestions without end.
emptyMatch(rule, found) ==
    found.index # -1 /\ found.text = "" /\ includes(rule.pattern.flags, "g")

\* The while loop of one rule on one line never ends.
RECURSIVE loopsForever(_, _, _)
loopsForever(rule, line, found) ==
    IF found.index = -1 \/ ~includes(rule.pattern.flags, "g") THEN FALSE
    ELSE IF emptyMatch(rule, found) THEN TRUE
    ELSE loopsForever(rule, line, execStyle(rule.pattern, line, found.index + Len(found.text)))

RECURSIVE matchLoop(_, _, _, _)
matchLoop(rule, line, lineNumber, found) ==
    IF found.index = -1 THEN <<>>
    ELSE <<Suggestion(rule.type, rule.message, rule.explanation, rule.severity, lineNumber,
                      found.index + 1, styleReplacement(rule, line, found.text))>>
         \o (IF ~includes(rule.pattern.flags, "g") \/ emptyMatch(rule, found) THEN <<>>
             ELSE matchLoop(rule, line, lineNumber,
                            execStyle(rule.pattern, line, found.index + Len(found.text))))

RECURSIVE checkStyleRules(_, _, _, _)
checkStyleRules(rules, line, lineNumber, i) ==
    IF i > Len(rules) THEN <<>>
    ELSE matchLoop(rules[i], line, lineNumber, execStyle(rules[i].pattern, line, 0))
         \o checkStyleRules(rules, line, lineNumber, i + 1)

\* A sentence longer than this is reported: 100 characters in the source,
\* scaled down to keep the sample texts short.
SentenceLimit == 30

RECURSIVE skipTerminals(_)
skipTerminals(s) == IF s # "" /\ isTerminal(Head(s)) THEN skipTerminals(Tail(s)) ELSE s

\* line.split(/[.!?]+/)
RECURSIVE splitSentences(_, _)
splitSentences(s, i) ==
    IF i >= Len(s) THEN <<s>>
    ELSE IF isTerminal(charAt(s, i))
    THEN <<SubSeq(s, 1, i)>> \o splitSentences(skipTerminals(sliceFrom(s, i)), 0)
    ELSE splitSentences(s, i + 1)

RECURSIVE lengthLoop(_, _, _, _)
lengthLoop(line, lineNumber, sentences, i) ==
    IF i > Len(sentences) THEN <<>>
    ELSE (IF Len(trim(sentences[i])) > SentenceLimit
          THEN <<Suggestion("sentence-length",
                            "Consider breaking this long sentence into shorter ones",
                            "Shorter sentences improve readability and comprehension",
                            "warning", lineNumber, indexOf(line, trim(sentences[i])) + 1,
                            NoSuggestion)>>
          ELSE <<>>)
         \o lengthLoop(line, lineNumber, sentences, i + 1)

checkSentenceLength(line, lineNumber) ==
    lengthLoop(line, lineNumber, splitSentences(line, 0), 1)

RECURSIVE styleLines(_, _, _)
styleLines(rules, lines, i) ==
    IF i > Len(lines) THEN <<>>
    ELSE checkSentenceLength(lines[i], i) \o checkStyleRules(rules, lines[i], i, 1)
         \o styleLines(rules, lines, i + 1)

\* How a call ends: it returns (resolves with) a value or throws (rejects).
Returned(result) == [outcome |-> "return", result |-> result]
Thrown(error) == [outcome |-> "throw", result |-> error]

\* What text.trim() throws for a value that is no string.
NoTrim == "TypeError: trim is not a function"

\* `!text || text.trim().length === 0` with its three outcomes
blankGuard(v) ==
    IF ~truthy(v) THEN "blank"
    ELSE IF ~hasTrim(v) THEN "throws"
    ELSE IF Len(trim(v.s)) = 0 THEN "blank" ELSE "text"

\* The call never comes back: it is caught in the loop of some rule on
\* some line.
Diverges == [outcome |-> "diverges", result |-> <<>>]

styleLoopsForever(rules, lines) ==
    \E i \in 1..Len(lines), r \in 1..Len(rules) :
        loopsForever(rules[r], lines[i], execStyle(rules[r].pattern, lines[i], 0))

suggestStyle(rules, v) ==
    CASE blankGuard(v) = "blank" -> Returned(<<>>)
      [] blankGuard(v) = "throws" -> Thrown(NoTrim)
      [] styleLoopsForever(rules, split(v.s, "\n")) -> Diverges
      [] OTHER -> Returned(styleLines(rules, split(v.s, "\n"), 1))

LongSentence == "This sentence goes on and on and on"

StyleTexts == {"The report was written by John.", "In order to win we try. In order to rest",
               "I think that it is very good stuff", "Teh end.\nIt is totally unique", "Fine.",
               LongSentence \o "! Ok."}
StyleInputs == {Str(s) : s \in StyleTexts} \cup InvalidInputs

\* The suggestions for the sample inputs under the default table, computed once.
styleResults == [v \in StyleInputs |-> suggestStyle(DefaultStyleRules, v)]

styleResult(rules, v) ==
    IF rules = DefaultStyleRules /\ v \in StyleInputs
    THEN styleResults[v] ELSE suggestStyle(rules, v)

SuggestStyle(v) ==
    /\ ret' = Call("suggestStyle", v, styleResult(STYLE_RULES, v).outcome,
                   styleResult(STYLE_RULES, v).result, "")
    /\ UNCHANGED <<rulesVars, debounceVars, serviceVars>>

-----------------------------------------------------------------------------
(* Part-of-speech tagging: posTagger and processText                       *)

\* A term of nlp(sentence).json()[0].terms, and what the library call does:
\* it throws or it answers with a list of terms.
Term(text, tags) == [text |-> text, tags |-> tags]
Analysis(throws, terms) == [throws |-> throws, terms |-> terms]

POS_TAG_MAP == {"Determiner", "Noun", "Verb", "Preposition", "Punctuation", "Adjective",
                "Adverb", "Pronoun", "Conjunction", "Interjection"}

\* POS_TAG_MAP[compromiseTag] || compromiseTag || 'UNK' for the first tag
posOf(tags) ==
    IF Len(tags) = 0 THEN "UNK"
    ELSE IF tags[1] \in POS_TAG_MAP THEN tags[1]
    ELSE IF tags[1] # "" THEN tags[1] ELSE "UNK"

Tagged(text, pos, start, end) == [text |-> text, pos |-> pos, start |-> start, end |-> end]

\* tokens.map(...) of posTagger from term i on; startOffset is where the
\* text of term i was found at or after the end of the term before.
RECURSIVE tagTerms(_, _, _, _)
tagTerms(sentence, terms, i, startOffset) ==
    <<Tagged(terms[i].text, posOf(terms[i].tags), startOffset, startOffset + Len(terms[i].text))>>
    \o (IF i = Len(terms) THEN <<>>
        ELSE tagTerms(sentence, terms, i + 1,
                      indexOfFrom(sentence, terms[i + 1].text, startOffset + Len(terms[i].text))))

\* s.split(/\s+/).filter(text => text.length > 0), each word tagged 'UNK'
RECURSIVE untaggedWords(_)
untaggedWords(s) ==
    IF trimStart(s) = "" THEN <<>>
    ELSE <<[text |-> SubSeq(trimStart(s), 1, firstIndex({i \in 1..Len(trimStart(s)) :
                                  isSpace(charAt(trimStart(s), i)) \/ i = Len(trimStart(s))})),
            pos |-> "UNK"]>>
         \o untaggedWords(sliceFrom(trimStart(s), firstIndex({i \in 1..Len(trimStart(s)) :
                                  isSpace(charAt(trimStart(s), i)) \/ i = Len(trimStart(s))})))

posTagger(v, nlp) ==
    CASE blankGuard(v) = "blank" -> Returned(<<>>)
      [] blankGuard(v) = "throws" -> Thrown(NoTrim)
      [] nlp.throws -> Returned(untaggedWords(trim(v.s)))
      [] nlp.terms = <<>> -> Returned(<<>>)
      [] OTHER -> Returned(tagTerms(v.s, nlp.terms, 1, indexOfFrom(v.s, nlp.terms[1].text, 0)))

\* The library answers with the words of the sentence: the texts of the
\* terms stand in the sentence one after the other, in the order of the terms.
termsOf(sentence, terms) ==
    \E at \in [1..Len(terms) -> 0..Len(sentence)] :
        /\ \A i \in 1..Len(terms) : occursAt(sentence, terms[i].text, at[i])
        /\ \A i \in 1..(Len(terms) - 1) : at[i] + Len(terms[i].text) <= at[i + 1]

\* nlp(sentence) can end as `nlp` says; a value that is rejected before the
\* library is called goes with every sample.
analysisOf(v, nlp) == blankGuard(v) # "text" \/ nlp.throws \/ termsOf(v.s, nlp.terms)

TagTexts == {"The fox ran", " Hello  world ", "a b, a b"}
TagInputs == {Str(s) : s \in TagTexts} \cup InvalidInputs
Analyses == {
    Analysis(TRUE, <<>>),
    Analysis(FALSE, <<>>),
    Analysis(FALSE, <<Term("The", <<"Determiner">>), Term("fox", <<"Animal", "Noun">>),
                      Term("ran", <<>>)>>),
    Analysis(FALSE, <<Term("Hello", <<"Interjection">>), Term("world", <<"Noun", "Singular">>)>>),
    Analysis(FALSE, <<Term("a", <<"Determiner">>), Term("b", <<"Noun">>), Term("a", <<"Determiner">>),
                      Term("b", <<"Noun">>)>>) }

\* The calls of the tagger with what the library can answer for them.
TaggerCalls == {c \in TagInputs \X Analyses : analysisOf(c[1], c[2])}

PosTagger(v, nlp) ==
    /\ ret' = Call("posTagger", [t |-> v.t, s |-> v.s, nlp |-> nlp],
                   posTagger(v, nlp).outcome, posTagger(v, nlp).result, "")
    /\ UNCHANGED <<rulesVars, debounceVars, serviceVars>>

\* What globalSynonymProvider does: there is none, its getCandidates throws,
\* or it answers; the model lets it answer the same list for every word.
Provider(state, synonyms) == [state |-> state, synonyms |-> synonyms]
Providers == {Provider("none", <<>>), Provider("throws", <<>>),
              Provider("answers", <<"quick", "rapid">>)}

synonymsFor(pos, provider) ==
    IF pos \in {"Punctuation", "Determiner"} \/ provider.state # "answers" THEN <<>>
    ELSE provider.synonyms

\* tokensWithPositions and the enrichment of processText from token i on;
\* tokenIndex is text.indexOf(token.text, currentPosition).
RECURSIVE enhanceTokens(_, _, _, _, _, _)
enhanceTokens(text, tokens, provider, i, currentPosition, tokenIndex) ==
    IF i > Len(tokens) THEN <<>>
    ELSE IF tokenIndex = -1
    THEN enhanceTokens(text, tokens, provider, i, currentPosition, currentPosition)
    ELSE <<[text |-> tokens[i].text, pos |-> tokens[i].pos, start |-> tokenIndex,
            end |-> tokenIndex + Len(tokens[i].text),
            synonyms |-> synonymsFor(tokens[i].pos, provider)]>>
         \o (IF i = Len(tokens) THEN <<>>
             ELSE enhanceTokens(text, tokens, provider, i + 1,
                      tokenIndex + Len(tokens[i].text) + 1,
                      indexOfFrom(text, tokens[i + 1].text, tokenIndex + Len(tokens[i].text) + 1)))

\* processText is async: a throw inside it rejects the promise it returns.
\* posTagger does not throw for a string and the provider's failure is caught
\* per token, so the catch block of processText is not entered.
processText(v, nlp, provider) ==
    CASE blankGuard(v) = "blank" -> [outcome |-> "resolve", result |-> <<>>]
      [] blankGuard(v) = "throws" -> [outcome |-> "reject", result |-> NoTrim]
      [] posTagger(v, nlp).result = <<>> -> [outcome |-> "resolve", result |-> <<>>]
      [] OTHER ->
          [outcome |-> "resolve",
           result |-> enhanceTokens(v.s, posTagger(v, nlp).result, provider, 1, 0,
                          indexOfFrom(v.s, posTagger(v, nlp).result[1].text, 0))]

ProcessText(v, nlp, provider) ==
    /\ ret' = Call("processText", [t |-> v.t, s |-> v.s, nlp |-> nlp, provider |-> provider],
                   processText(v, nlp, provider).outcome,
                   processText(v, nlp, provider).result, "")
    /\ UNCHANGED <<rulesVars, debounceVars, serviceVars>>

-----------------------------------------------------------------------------
(* Entity recognition: entityRecognizer                                    *)

RECURSIVE toUpperCase(_)
toUpperCase(s) == IF s = "" THEN "" ELSE upperChar(Head(s)) \o toUpperCase(Tail(s))

\* s.split(/\s+/)
RECURSIVE splitSpaces(_, _)
splitSpaces(s, i) ==
    IF i >= Len(s) THEN <<s>>
    ELSE IF isSpace(charAt(s, i))
    THEN <<SubSeq(s, 1, i)>> \o splitSpaces(trimStart(sliceFrom(s, i)), 0)
    ELSE splitSpaces(s, i + 1)

\* tokens.map(t => t.text)
RECURSIVE tokenTexts(_)
tokenTexts(tokens) ==
    IF tokens = <<>> THEN <<>> ELSE <<tokens[1].text>> \o tokenTexts(Tail(tokens))

\* tokens.map(t => t.text).join(' ')
reconstructedText(tokens) == join(tokenTexts(tokens), " ")

\* isTokenSequenceMatch(tokens, startIndex, entityWords), indices from 1
isTokenSequenceMatch(tokens, startIndex, entityWords) ==
    \A i \in 1..Len(entityWords) :
        toLowerCase(tokens[startIndex + i - 1].text) = entityWords[i]

\* The index of the first token of the tokens findMatchingTokensOptimized
\* returns for the words of the entity, 0 when it returns none.
findMatchingTokensOptimized(entityWords, tokens) ==
    IF Len(entityWords) = 1
    THEN firstIndex({i \in 1..Len(tokens) : toLowerCase(tokens[i].text) = entityWords[1]})
    ELSE firstIndex({i \in 1..(Len(tokens) - Len(entityWords) + 1) :
                        isTokenSequenceMatch(tokens, i, entityWords)})

calculateFallbackOffset(token, tokens) == indexOf(reconstructedText(tokens), token.text)

getOptimizedOffset(token, tokens) ==
    IF "start" \in DOMAIN token THEN token.start ELSE calculateFallbackOffset(token, tokens)

Span(text, type, start, end) == [text |-> text, type |-> type, start |-> start, end |-> end]

\* buildEntityResult for the entity whose tokens are first..last
buildEntityResult(entityText, entityType, tokens, first, last) ==
    Span(entityText, entityType, getOptimizedOffset(tokens[first], tokens),
         getOptimizedOffset(tokens[last], tokens) + Len(tokens[last].text))

\* calculateEntityOffsetsFromTokens, as the list of the 0 or 1 spans it adds
entitySpan(entityText, entityType, tokens, first) ==
    IF first <= 0 THEN <<>>
    ELSE <<buildEntityResult(entityText, entityType, tokens, first,
               first + Len(splitSpaces(toLowerCase(entityText), 0)) - 1)>>

calculateEntityOffsetsFromTokens(entityText, tokens, entityType) ==
    entitySpan(entityText, entityType, tokens,
        findMatchingTokensOptimized(splitSpaces(toLowerCase(entityText), 0), tokens))

RECURSIVE addEntitiesOptimized(_, _, _)
addEntitiesOptimized(entities, type, tokens) ==
    IF entities = <<>> THEN <<>>
    ELSE calculateEntityOffsetsFromTokens(entities[1], tokens, type)
         \o addEntitiesOptimized(Tail(entities), type, tokens)

\* What the library finds in the reconstructed text, or that it throws.
Found(throws, people, places, organizations) ==
    [throws |-> throws, people |-> people, places |-> places, organizations |-> organizations]

extractNLPEntities(tokens, found) ==
    addEntitiesOptimized(found.people, "Person", tokens)
    \o addEntitiesOptimized(found.places, "Location", tokens)
    \o addEntitiesOptimized(found.organizations, "Organization", tokens)

\* The span of a dictionary word `entity:<type>:<value>` whose value is a token.
customSpan(type, tokens, at) ==
    IF at <= 0 THEN <<>>
    ELSE IF getOptimizedOffset(tokens[at], tokens) >= 0
    THEN <<Span(tokens[at].text, toUpperCase(type), getOptimizedOffset(tokens[at], tokens),
                getOptimizedOffset(tokens[at], tokens) + Len(tokens[at].text))>>
    ELSE <<Span(tokens[at].text, toUpperCase(type), -1, -1)>>

customEntity(parts, tokens) ==
    IF Len(parts) < 3 THEN <<>>
    ELSE customSpan(parts[2], tokens,
             firstIndex({i \in 1..Len(tokens) :
                            toLowerCase(tokens[i].text) = toLowerCase(parts[3])}))

RECURSIVE processCustomEntities(_, _)
processCustomEntities(words, tokens) ==
    IF words = <<>> THEN <<>>
    ELSE (IF startsWith(words[1], "entity:") THEN customEntity(split(words[1], ":"), tokens)
          ELSE <<>>)
         \o processCustomEntities(Tail(words), tokens)

\* dictionaryStore: there is none, listWords() rejects, or it lists words.
Dictionary(state, words) == [state |-> state, words |-> words]

\* Any failure below entityRecognizer ends in its catch block.
entityRecognizer(tokens, found, dictionary) ==
    IF tokens = <<>> \/ found.throws \/ dictionary.state = "rejects" THEN <<>>
    ELSE extractNLPEntities(tokens, found)
         \o (IF dictionary.state = "none" THEN <<>>
             ELSE processCustomEntities(dictionary.words, tokens))

EntityTokens == {
    <<>>,
    <<Tagged("Barack", "Noun", 0, 6), Tagged("Obama", "Noun", 7, 12),
      Tagged("visited", "Verb", 13, 20), Tagged("Paris", "Noun", 21, 26)>>,
    <<Tagged("Hi", "Interjection", 0, 2), Tagged("Paris", "Noun", 4, 9),
      Tagged("calls", "Verb", 10, 15)>>,
    <<[text |-> "Obama", pos |-> "UNK"], [text |-> "met", pos |-> "UNK"],
      [text |-> "Barack", pos |-> "UNK"], [text |-> "Obama", pos |-> "UNK"]>>,
    <<[text |-> "Acme", pos |-> "UNK"], [text |-> "Corp", pos |-> "UNK"],
      [text |-> "hired", pos |-> "UNK"], [text |-> "Obama", pos |-> "UNK"]>> }

Findings == {
    Found(TRUE, <<>>, <<>>, <<>>),
    Found(FALSE, <<>>, <<>>, <<>>),
    Found(FALSE, <<"Barack Obama">>, <<"Paris">>, <<>>),
    Found(FALSE, <<"Obama">>, <<"paris">>, <<"Acme Corp">>) }

Dictionaries == {
    Dictionary("none", <<>>),
    Dictionary("rejects", <<>>),
    Dictionary("lists", <<"entity:product:paris", "plain", "entity:x">>) }

EntityRecognizer(tokens, found, dictionary) ==
    /\ ret' = Call("entityRecognizer",
                   [tokens |-> tokens, found |-> found, dictionary |-> dictionary],
                   "resolve", entityRecognizer(tokens, found, dictionary), "")
    /\ UNCHANGED <<rulesVars, debounceVars, serviceVars>>

-----------------------------------------------------------------------------
(* Synonym candidates: the scoring strategy and the context-aware provider *)

ContextMapping(keywords, synonymScores) ==
    [keywords |-> keywords, synonymScores |-> synonymScores]

\* The mappings in the order Object.entries lists them: financial, geographical.
DEFAULT_CONTEXT_CONFIG ==
    [contextMappings |-> <<
        ContextMapping({"financial", "money", "loan", "credit", "bank"},
            [institution |-> Fraction(9, 10), lender |-> Fraction(9, 10),
             financier |-> Fraction(9, 10), shore |-> Fraction(1, 10),
             riverside |-> Fraction(1, 10)]),
        ContextMapping({"river", "water", "shore", "stream"},
            [shore |-> Fraction(9, 10), riverside |-> Fraction(9, 10),
             embankment |-> Fraction(9, 10), institution |-> Fraction(1, 10),
             lender |-> Fraction(1, 10)]) >>,
     defaultScore |-> Fraction(1, 2)]

\* Math.max
maxScore(a, b) == IF less(a, b) THEN b ELSE a

\* list.map(s => s.toLowerCase())
RECURSIVE lowerAll(_)
lowerAll(list) == IF list = <<>> THEN <<>> ELSE <<toLowerCase(list[1])>> \o lowerAll(Tail(list))

\* contextWords.some(word => mapping.keywords.includes(word))
hasContextKeywords(mapping, contextWords) ==
    \E i \in 1..Len(contextWords) : contextWords[i] \in mapping.keywords

\* The loop of calculateContextScore from mapping i on.
RECURSIVE contextScoreLoop(_, _, _, _, _)
contextScoreLoop(mappings, synonym, contextWords, i, bestScore) ==
    IF i > Len(mappings) THEN bestScore
    ELSE IF /\ hasContextKeywords(mappings[i], contextWords)
            /\ synonym \in DOMAIN mappings[i].synonymScores
    THEN contextScoreLoop(mappings, synonym, contextWords, i + 1,
                          maxScore(bestScore, mappings[i].synonymScores[synonym]))
    ELSE contextScoreLoop(mappings, synonym, contextWords, i + 1, bestScore)

calculateContextScore(config, synonym, contextWords) ==
    contextScoreLoop(config.contextMappings, synonym, contextWords, 1, config.defaultScore)

Scored(synonym, score) == [synonym |-> synonym, score |-> score]

\* synonyms.map(...) of TFIDFScoringStrategy.scoreSynonyms
RECURSIVE scoreEach(_, _, _)
scoreEach(config, synonyms, context) ==
    IF synonyms = <<>> THEN <<>>
    ELSE <<Scored(synonyms[1],
                  IF Len(context) > 0
                  THEN calculateContextScore(config, toLowerCase(synonyms[1]), lowerAll(context))
                  ELSE config.defaultScore)>>
         \o scoreEach(config, Tail(synonyms), context)

\* TFIDFScoringStrategy.scoreSynonyms
scoreSynonyms(config, synonyms, context) ==
    sortByScore(scoreEach(config, synonyms, context), Len(synonyms))

SynonymSamples == {<<>>, <<"riverside">>, <<"shore", "Lender", "stream", "embankment">>}
Contexts == {<<>>, <<"Money">>, <<"tree">>, <<"the", "river", "bank">>}

ScoreSynonyms(synonyms, context) ==
    /\ ret' = Call("scoreSynonyms", [synonyms |-> synonyms, context |-> context], "resolve",
                   scoreSynonyms(DEFAULT_CONTEXT_CONFIG, synonyms, context), "")
    /\ UNCHANGED <<rulesVars, debounceVars, serviceVars>>

\* synonymsStr.split(',').map(s => s.trim()).filter(s => s.length > 0)
RECURSIVE trimmedParts(_)
trimmedParts(parts) ==
    IF parts = <<>> THEN <<>>
    ELSE (IF trim(parts[1]) = "" THEN <<>> ELSE <<trim(parts[1])>>) \o trimmedParts(Tail(parts))

\* The loop of DictionarySynonymProvider.getCandidates over the words of the
\* dictionary: the first entry `synonym:<word>:<list>` for the word decides.
RECURSIVE synonymEntries(_, _)
synonymEntries(words, word) ==
    IF words = <<>> THEN <<>>
    ELSE IF /\ startsWith(words[1], "synonym:")
            /\ Len(split(words[1], ":")) >= 3
            /\ toLowerCase(split(words[1], ":")[2]) = toLowerCase(word)
    THEN trimmedParts(split(split(words[1], ":")[3], ","))
    ELSE synonymEntries(Tail(words), word)

\* DictionarySynonymProvider.getCandidates for a word that passed the guard
dictionaryCandidates(word, dictionary) ==
    IF dictionary.state # "lists" THEN <<>> ELSE synonymEntries(dictionary.words, word)

\* A catch block that would drop the candidates when the scoring fails.
scoringFailedEmpty(synonyms) == <<>>

\* The catch block around the scoring returns the unscored list.
scoringFailed(synonyms) == synonyms

\* scores.map(s => s.synonym)
RECURSIVE rankedSynonyms(_)
rankedSynonyms(scores) ==
    IF scores = <<>> THEN <<>> ELSE <<scores[1].synonym>> \o rankedSynonyms(Tail(scores))

\* The scoring strategy is pluggable: it throws or it is the keyword-table one.
Scorers == {"throws", "keyword-table"}

rankCandidates(synonyms, context, scorer) ==
    IF synonyms = <<>> \/ Len(context) = 0 THEN synonyms
    ELSE IF scorer = "throws" THEN scoringFailed(synonyms)
    ELSE rankedSynonyms(scoreSynonyms(DEFAULT_CONTEXT_CONFIG, synonyms, context))

\* ContextAwareSynonymProvider.getCandidates
getCandidates(v, context, dictionary, scorer) ==
    CASE blankGuard(v) = "blank" -> [outcome |-> "resolve", result |-> <<>>]
      [] blankGuard(v) = "throws" -> [outcome |-> "reject", result |-> NoTrim]
      [] OTHER -> [outcome |-> "resolve",
                   result |-> rankCandidates(dictionaryCandidates(v.s, dictionary), context, scorer)]

CandidateWords == {Str("Bank"), Str("tree"), Str(" "), Num("5")}
SynonymDictionaries == {
    Dictionary("rejects", <<>>),
    Dictionary("lists", <<"plain", "synonym:bank: shore, lender ,,institution", "synonym:bank:x",
                          "synonym:tree:">>) }

GetCandidates(v, context, dictionary, scorer) ==
    /\ ret' = Call("getCandidates",
                   [t |-> v.t, s |-> v.s, context |-> context, dictionary |-> dictionary,
                    scorer |-> scorer],
                   getCandidates(v, context, dictionary, scorer).outcome,
                   getCandidates(v, context, dictionary, scorer).result, "")
    /\ UNCHANGED <<rulesVars, debounceVars, serviceVars>>

-----------------------------------------------------------------------------
(* Inline enhancements: vocabulary and style suggestions for a text        *)

StylePattern(kind, type, first, second) ==
    [kind |-> kind, type |-> type, first |-> first, second |-> second]

StyleAuxiliaries == {"was", "were", "is", "are", "am", "been", "being"}

\* STYLE_PATTERNS, all with the flags gi.  The kinds are
\*   "pair"      /\b(first)\s+(second)\b/
\*   "ed-by"     /\b(first)\s+\w+ed\s+by\b/
\*   "intensity" /\b(first)\s+(\w+)/
\*   "phrases"   /\b(first)\b/, the alternatives in the order of the source
STYLE_PATTERNS == <<
    StylePattern("pair", "passive_voice", StyleAuxiliaries,
        {"written", "completed", "analyzed", "done", "made", "given", "taken", "spoken",
         "created", "developed", "implemented", "designed", "built", "established", "formed",
         "conducted", "performed", "executed", "delivered", "processed", "handled", "managed",
         "controlled", "directed", "supervised", "operated", "maintained"}),
    StylePattern("ed-by", "passive_voice", StyleAuxiliaries, {}),
    StylePattern("intensity", "intensity_adverbs",
        {"very", "really", "quite", "rather", "extremely", "incredibly", "absolutely",
         "completely", "totally", "utterly", "tremendously", "enormously", "exceptionally",
         "remarkably", "particularly", "especially", "significantly"}, {}),
    StylePattern("phrases", "wordiness",
        <<"in order to", "due to the fact that", "for the reason that",
          "in spite of the fact that", "regardless of the fact that",
          "because of the fact that", "in the event that", "in the case that",
          "with regard to", "with reference to", "in relation to", "for the purpose of",
          "with the intention of", "in view of the fact that">>, {}),
    StylePattern("phrases", "wordiness",
        <<"it is important to note that", "it should be noted that",
          "it is worth mentioning that", "it is interesting to note that",
          "please be aware that", "take into consideration", "give consideration to",
          "make a decision", "reach a conclusion", "come to an agreement", "take action",
          "make an assumption">>, {}),
    StylePattern("phrases", "redundancy",
        <<"absolutely certain", "completely eliminate", "end result", "final outcome",
          "past experience", "advance planning", "future plans", "close proximity",
          "exact same", "free gift", "true fact", "personal opinion", "advance warning">>, {}) >>

\* The index after the match of a style pattern that starts at i, or -1.
patternEnd(p, low, i) ==
    CASE p.kind = "pair" ->
             firstIndex({j + Len(b) : <<j, b>> \in
                 {c \in (0..Len(low)) \X p.second :
                     /\ \E a \in p.first : occursAt(low, a, i) /\ c[1] \in afterSpaces(low, i + Len(a))
                     /\ occursAt(low, c[2], c[1]) /\ wordBoundary(low, c[1] + Len(c[2]))}})
      [] p.kind = "ed-by" ->
             firstIndex({m + 2 : m \in {m \in i..Len(low) :
                 /\ occursAt(low, "by", m) /\ wordBoundary(low, m + 2)
                 /\ \E a \in p.first :
                       /\ occursAt(low, a, i)
                       /\ \E j \in afterSpaces(low, i + Len(a)) : \E k \in afterWord(low, j) :
                              /\ k - j >= 3 /\ occursAt(low, "ed", k - 2)
                              /\ m \in afterSpaces(low, k)}})
      [] p.kind = "intensity" ->
             firstIndex({k \in 0..Len(low) :
                 /\ ~isWordChar(charAt(low, k))
                 /\ \E a \in p.first : /\ occursAt(low, a, i)
                                       /\ \E j \in afterSpaces(low, i + Len(a)) :
                                              k \in afterWord(low, j)})
      [] OTHER ->
             IF phraseLength(low, p.first, i, 1) > 0 THEN i + phraseLength(low, p.first, i, 1)
             ELSE -1

\* stylePattern.pattern.exec(text) with lastIndex = from: where the leftmost
\* match starts, or -1.
patternStart(p, low, from) ==
    firstIndex({i \in from..Len(low) : wordBoundary(low, i) /\ patternEnd(p, low, i) # -1})

StyleAdvice(phrases, advice) == [phrases |-> phrases, advice |-> advice]

\* The lookups of generateStyleSuggestions in the order of their if statements.
IntensityAdvice == <<
    StyleAdvice("very good", <<"excellent", "outstanding">>),
    StyleAdvice("very bad", <<"terrible", "awful">>),
    StyleAdvice("very big", <<"enormous", "massive">>),
    StyleAdvice("very small", <<"tiny", "minuscule">>),
    StyleAdvice("very important", <<"crucial", "essential">>),
    StyleAdvice("very difficult", <<"challenging", "arduous">>),
    StyleAdvice("very easy", <<"simple", "effortless">>),
    StyleAdvice("very nice", <<"wonderful", "delightful">>) >>

WordinessAdvice == <<
    StyleAdvice("in order to", <<"to">>),
    StyleAdvice("due to the fact that", <<"because">>),
    StyleAdvice("for the reason that", <<"because">>),
    StyleAdvice("in spite of the fact that", <<"although">>),
    StyleAdvice("with regard to", <<"about">>),
    StyleAdvice("with reference to", <<"regarding">>),
    StyleAdvice("for the purpose of", <<"to">>),
    StyleAdvice("give consideration to", <<"consider">>),
    StyleAdvice("make a decision", <<"decide">>),
    StyleAdvice("reach a conclusion", <<"conclude">>),
    StyleAdvice("come to an agreement", <<"agree">>),
    StyleAdvice("take action", <<"act">>),
    StyleAdvice("make an assumption", <<"assume">>) >>

RedundancyAdvice == <<
    StyleAdvice("absolutely certain", <<"certain">>),
    StyleAdvice("completely eliminate", <<"eliminate">>),
    StyleAdvice("end result", <<"result">>),
    StyleAdvice("final outcome", <<"outcome">>),
    StyleAdvice("past experience", <<"experience">>),
    StyleAdvice("advance planning", <<"planning">>),
    StyleAdvice("future plans", <<"plans">>),
    StyleAdvice("close proximity", <<"proximity">>),
    StyleAdvice("exact same", <<"same">>),
    StyleAdvice("free gift", <<"gift">>),
    StyleAdvice("true fact", <<"fact">>),
    StyleAdvice("personal opinion", <<"opinion">>),
    StyleAdvice("advance warning", <<"warning">>) >>

\* The first `if (lowerText.includes(...)) return [...]` that applies, else
\* the return after them.
RECURSIVE firstAdvice(_, _, _, _)
firstAdvice(lowerText, table, k, otherwise) ==
    IF k > Len(table) THEN otherwise
    ELSE IF includes(lowerText, table[k].phrases) THEN table[k].advice
    ELSE firstAdvice(lowerText, table, k + 1, otherwise)

generateStyleSuggestions(text, styleType) ==
    CASE styleType = "passive_voice" ->
             <<"use active voice", "make subject perform action",
               "identify who performs the action">>
      [] styleType = "intensity_adverbs" ->
             firstAdvice(toLowerCase(text), IntensityAdvice, 1,
                 <<"use stronger adjective", "remove intensifier", "choose precise word">>)
      [] styleType = "wordiness" ->
             firstAdvice(toLowerCase(text), WordinessAdvice, 1,
                 <<"simplify", "be concise", "use fewer words">>)
      [] styleType = "redundancy" ->
             firstAdvice(toLowerCase(text), RedundancyAdvice, 1,
                 <<"remove redundant word", "eliminate repetition">>)
      [] OTHER -> <<"improve", "revise", "enhance">>

InlineSuggestion(text, start, end, suggestions) ==
    [text |-> text, start |-> start, end |-> end, suggestions |-> suggestions]

\* The while loop over the matches of one style pattern; `at` is the start of
\* the match exec has found from lastIndex, -1 when it found none.
RECURSIVE patternSuggestions(_, _, _, _)
patternSuggestions(p, text, low, at) ==
    IF at = -1 THEN <<>>
    ELSE <<InlineSuggestion(SubSeq(text, at + 1, patternEnd(p, low, at)), at,
                            patternEnd(p, low, at),
                            generateStyleSuggestions(SubSeq(text, at + 1, patternEnd(p, low, at)),
                                                     p.type))>>
         \o patternSuggestions(p, text, low, patternStart(p, low, patternEnd(p, low, at)))

\* STYLE_PATTERNS.forEach(...) from pattern k on
RECURSIVE styleSuggestions(_, _)
styleSuggestions(text, k) ==
    IF k > Len(STYLE_PATTERNS) THEN <<>>
    ELSE patternSuggestions(STYLE_PATTERNS[k], text, toLowerCase(text),
                            patternStart(STYLE_PATTERNS[k], toLowerCase(text), 0))
         \o styleSuggestions(text, k + 1)

FallbackWords == <<"large", "beautiful", "building", "quick", "excellent", "good", "bad",
                   "small", "big", "nice", "happy", "sad", "smart", "funny", "important",
                   "difficult", "easy", "old", "new", "house", "car", "dog", "cat", "fox",
                   "brown", "jumps", "gracefully", "lazy">>
FallbackLists == <<
    <<"big", "huge", "enormous", "massive">>, <<"gorgeous", "stunning", "lovely", "attractive">>,
    <<"structure", "edifice", "construction", "facility">>, <<"fast", "rapid", "swift", "speedy">>,
    <<"outstanding", "superb", "remarkable", "exceptional">>,
    <<"great", "wonderful", "excellent", "fantastic">>,
    <<"terrible", "awful", "horrible", "dreadful">>, <<"tiny", "little", "petite", "miniature">>,
    <<"large", "huge", "enormous", "massive">>, <<"pleasant", "lovely", "delightful", "wonderful">>,
    <<"joyful", "cheerful", "delighted", "pleased">>,
    <<"unhappy", "sorrowful", "melancholy", "dejected">>,
    <<"intelligent", "clever", "brilliant", "wise">>,
    <<"amusing", "hilarious", "comical", "entertaining">>,
    <<"crucial", "vital", "essential", "significant">>, <<"challenging", "hard", "tough", "complex">>,
    <<"simple", "effortless", "straightforward", "uncomplicated">>,
    <<"ancient", "elderly", "aged", "vintage">>, <<"fresh", "recent", "modern", "latest">>,
    <<"home", "residence", "dwelling", "abode">>, <<"vehicle", "automobile", "auto", "motor">>,
    <<"canine", "hound", "puppy", "pooch">>, <<"feline", "kitty", "kitten", "tabby">>,
    <<"vixen", "reynard", "vulpine">>, <<"tan", "chestnut", "mahogany", "russet">>,
    <<"leaps", "bounds", "springs", "hops">>, <<"elegantly", "smoothly", "fluidly", "beautifully">>,
    <<"idle", "sluggish", "lethargic", "inactive">> >>

\* synonymMap[word] || []
getFallbackSynonyms(word) ==
    IF \E k \in 1..Len(FallbackWords) : FallbackWords[k] = word
    THEN FallbackLists[CHOOSE k \in 1..Len(FallbackWords) : FallbackWords[k] = word]
    ELSE <<>>

vocabularySuggestions(token) ==
    IF Len(token.synonyms) >= 2 THEN sliceTo(token.synonyms, 3)
    ELSE IF Len(getFallbackSynonyms(toLowerCase(token.text))) >= 2
    THEN sliceTo(getFallbackSynonyms(toLowerCase(token.text)), 3)
    ELSE <<>>

\* token.start || text.indexOf(token.text)
tokenStartIndex(text, token) ==
    IF token.start # 0 THEN token.start ELSE indexOf(text, token.text)

\* token.end || (startIndex + token.text.length)
tokenEndIndex(text, token) ==
    IF token.end # 0 THEN token.end ELSE tokenStartIndex(text, token) + Len(token.text)

\* tokens.forEach((token, index) => ...) from the token of 0-based index on
RECURSIVE tokenSuggestions(_, _, _)
tokenSuggestions(text, tokens, index) ==
    IF index >= Len(tokens) THEN <<>>
    ELSE (IF /\ tokens[index + 1].pos \in {"Noun", "Verb", "Adjective", "Adverb"}
             /\ Len(vocabularySuggestions(tokens[index + 1])) >= 2
          THEN <<InlineSuggestion(tokens[index + 1].text,
                     IF tokenStartIndex(text, tokens[index + 1]) >= 0
                     THEN tokenStartIndex(text, tokens[index + 1]) ELSE index * 5,
                     IF tokenEndIndex(text, tokens[index + 1]) >= 0
                     THEN tokenEndIndex(text, tokens[index + 1])
                     ELSE tokenStartIndex(text, tokens[index + 1]) + Len(tokens[index + 1].text),
                     vocabularySuggestions(tokens[index + 1]))>>
          ELSE <<>>)
         \o tokenSuggestions(text, tokens, index + 1)

\* processInlineEnhancements for a text that suggestInlineEnhancements has
\* let through: a non-blank string, for which processText resolves.
processInlineEnhancements(text, nlp, provider) ==
    tokenSuggestions(text, processText(Str(text), nlp, provider).result, 0)
        \o styleSuggestions(text, 1)

\* Texts with what the tagging library can answer for them.
InlineCalls == {
    <<"The fox ran", Analysis(FALSE, <<Term("The", <<"Determiner">>),
                                       Term("fox", <<"Animal", "Noun">>), Term("ran", <<>>)>>)>>,
    <<"The fox ran", Analysis(FALSE, <<Term("The", <<"Determiner">>),
                                       Term("fox", <<"Noun">>), Term("ran", <<"Verb">>)>>)>>,
    <<"It was very good", Analysis(TRUE, <<>>)>>,
    <<"It was very good", Analysis(FALSE, <<Term("It", <<"Pronoun">>), Term("was", <<"Verb">>),
                                            Term("very", <<"Adverb">>),
                                            Term("good", <<"Adjective">>)>>)>>,
    <<"Go in order to win a free gift", Analysis(TRUE, <<>>)>>,
    <<"It is made and was signed by Al", Analysis(TRUE, <<>>)>> }

\* What the calls resolve with, computed once.
inlineResults ==
    [c \in InlineCalls |-> [provider \in Providers |->
        processInlineEnhancements(c[1], c[2], provider)]]

\* The debounced function of suggestInlineEnhancements runs for a text: the
\* promise of the call resolves with the result of processInlineEnhancements.
ProcessInlineEnhancements(text, nlp, provider) ==
    /\ ret' = Call("suggestInlineEnhancements",
                   [t |-> "string", s |-> text, nlp |-> nlp, provider |-> provider],
                   "resolve", inlineResults[<<text, nlp>>][provider], "processed")
    /\ UNCHANGED <<rulesVars, debounceVars, serviceVars>>

-----------------------------------------------------------------------------
(* The result cache on the clock: when entries are stored and expire       *)

\* CACHE_TTL, 5000 ms in the source, scaled down to the clock of the model.
CACHE_TTL == 2

\* `due` holds the due times of the timers in cacheTimers, `storedAt` the
\* store time of every cached key, and `hitAt`, `hitStored` the time of the
\* last cache hit and the store time of the entry it returned (-1: no hit).
NoExpiry == [due |-> <<>>, storedAt |-> <<>>, hitAt |-> -1, hitStored |-> -1]

\* The history after the call `c` of checkGrammar at the time `now`.
expiryAfter(v, c) ==
    IF c.note = "hit"
    THEN [expiry EXCEPT !.hitAt = now, !.hitStored = mapGet(expiry.storedAt, trim(v.s))]
    ELSE IF c.note = "invalid" THEN expiry
    ELSE [expiry EXCEPT !.due = Append(@, now + CACHE_TTL),
                        !.storedAt = mapSet(IF evictedKey(processingCache) # ""
                                            THEN mapDelete(@, evictedKey(processingCache))
                                            ELSE @, c.stored, now)]

\* checkGrammar called at the time `now`.
CheckGrammarAt(v) ==
    /\ returnChecked(v, checkGrammar(GRAMMAR_RULES, processingCache, v))
    /\ cacheUpdate(checkGrammar(GRAMMAR_RULES, processingCache, v))
    /\ expiry' = expiryAfter(v, checkGrammar(GRAMMAR_RULES, processingCache, v))
    /\ UNCHANGED <<GRAMMAR_RULES, STYLE_RULES, debounceVars, cachingVars, overlayVars>>

\* The callback of the oldest expiry timer runs: setTimeout runs it when
\* its delay has passed, at that time or later, as the event loop gets to it.
ExpiryTimerFires ==
    /\ cacheTimers # <<>>
    /\ Head(expiry.due) <= now
    /\ processingCache' = mapDelete(processingCache, Head(cacheTimers))
    /\ storeOrder' = without(storeOrder, Head(cacheTimers))
    /\ cacheTimers' = Tail(cacheTimers)
    /\ expiry' = [expiry EXCEPT !.due = Tail(@),
                                !.storedAt = mapDelete(@, Head(cacheTimers))]
    /\ UNCHANGED <<GRAMMAR_RULES, STYLE_RULES, ret, debounceVars, cachingVars, overlayVars>>

-----------------------------------------------------------------------------
(* The score of one tone as detectTone reports it                          *)

\* Texts of up to this many words are scored, with raw scores up to this.
MaxWords == 260
MaxRawScore == 3

\* What detectTone reports for a tone whose words and patterns scored
\* `score` in a text of `words` words: the normalized score, raised to 0.1,
\* when it is above 0.05, and else the 0 of a tone that was not pushed.
reportedScore(score, words) ==
    IF less(Fraction(5, 100), normalizedScore(score, words))
    THEN IF less(normalizedScore(score, words), Fraction(1, 10)) THEN Fraction(1, 10)
         ELSE normalizedScore(score, words)
    ELSE Fraction(0, 1)

\* detectTone scores one tone of a text that is given by its word count and
\* by what the lexicon of the tone scored in it.
ScoreTone(score, words) ==
    /\ ret' = Call("toneScore", [score |-> score, words |-> words], "resolve",
                   reportedScore(score, words), "")
    /\ UNCHANGED <<rulesVars, debounceVars, serviceVars>>

-----------------------------------------------------------------------------
(* The debounce utility and the two entry points that use it               *)

\* The clock stops here, and so many debounced invocations are made at most.
MaxTime == 3
MaxInvocations == 2

\* The delay monitorRealTimeGrammar passes to debounce (ms).
MonitorDelay == 1

\* The delay suggestInlineEnhancements passes to debounce: 50 ms in the
\* source, scaled down to fit the clock of the model.
InlineDelay == 2

\* `realtime-grammar-${Date.now()}` and `inline-enhancements-${Date.now()}`
debounceKey(prefix, time) == prefix \o indexString(time)

\* One invocation of a debounced function, named by the timer it sets:
\* `state` is "pending" while the timer is live, "cancelled" after
\* clearTimeout, "fired" once the timer has run; `runs` counts the executions
\* of func, `delivered` the results handed to the callback or to resolve.
Invocation(op, key, text, throws, due) ==
    [op |-> op, key |-> key, text |-> text, throws |-> throws, due |-> due,
     state |-> "pending", runs |-> 0, ranAt |-> -1, delivered |-> 0]

\* A debounce that would not clear the timer pending under the key.
keepExisting(timers, pending, key) == pending

\* clearTimeout(existingTimer) for the timer debounceTimers holds under key.
clearExisting(timers, pending, key) ==
    IF mapHas(timers, key)
    THEN [i \in 1..Len(pending) |->
             IF i = mapGet(timers, key) /\ pending[i].state = "pending"
             THEN [pending[i] EXCEPT !.state = "cancelled"] ELSE pending[i]]
    ELSE pending

\* The function debounce returns, called once: it clears the timer pending
\* under the key, sets a new one and records it under the key.
debounce(op, delay, key, text, throws) ==
    /\ Len(invocations) < MaxInvocations
    /\ now + delay <= MaxTime
    /\ invocations' = Append(clearExisting(debounceTimers, invocations, key),
                             Invocation(op, key, text, throws, now + delay))
    /\ debounceTimers' = mapSet(debounceTimers, key, Len(invocations) + 1)

\* `throws` tells whether the callback throws when it is called.  The result
\* of the call lists what the callback was handed before the call returned.
MonitorRealTimeGrammar(v, throws) ==
    IF ~truthy(v) \/ v.t # "string"
    THEN /\ ret' = Call("monitorRealTimeGrammar", [t |-> v.t, s |-> v.s, throws |-> throws],
                        IF throws THEN "throw" ELSE "return",
                        IF throws THEN <<<<>>, <<>>>> ELSE <<<<>>>>, "called back")
         /\ UNCHANGED <<rulesVars, debounceVars, serviceVars>>
    ELSE /\ debounce("monitorRealTimeGrammar", MonitorDelay,
                     debounceKey("realtime-grammar-", now), v.s, throws)
         /\ ret' = Call("monitorRealTimeGrammar", [t |-> v.t, s |-> v.s, throws |-> throws],
                        "return", <<>>, "scheduled")
         /\ now' = now
         /\ UNCHANGED <<rulesVars, serviceVars>>

\* The promise of a call that is debounced stays pending until its func runs.
SuggestInlineEnhancements(v) ==
    IF ~truthy(v) \/ v.t # "string" \/ Len(trim(v.s)) = 0
    THEN /\ ret' = Call("suggestInlineEnhancements", v, "resolve", <<>>, "invalid")
         /\ UNCHANGED <<rulesVars, debounceVars, serviceVars>>
    ELSE /\ debounce("suggestInlineEnhancements", InlineDelay,
                     debounceKey("inline-enhancements-", now), v.s, FALSE)
         /\ ret' = Call("suggestInlineEnhancements", v, "pending", <<>>, "scheduled")
         /\ now' = now
         /\ UNCHANGED <<rulesVars, serviceVars>>

\* invocations after func of invocation i has run and handed over n results.
afterRun(i, n) ==
    [invocations EXCEPT ![i].state = "fired", ![i].runs = @ + 1, ![i].ranAt = now,
                        ![i].delivered = @ + n]

\* The timer of invocation i fires: func(...args), then debounceTimers.delete(key).
\* The func of monitorRealTimeGrammar checks the text and calls the callback;
\* a callback that throws is called again with [] by the catch block, and
\* when it throws again the timer function ends before the delete.
\* The func of suggestInlineEnhancements resolves the promise of its call.
DebounceTimerFires(i) ==
    /\ i \in 1..Len(invocations)
    /\ invocations[i].state = "pending"
    /\ invocations[i].due <= now
    /\ IF invocations[i].op = "monitorRealTimeGrammar"
       THEN /\ cacheUpdate(checkGrammar(GRAMMAR_RULES, processingCache, Str(invocations[i].text)))
            /\ invocations' = afterRun(i, IF invocations[i].throws THEN 2 ELSE 1)
            /\ debounceTimers' = IF invocations[i].throws THEN debounceTimers
                                 ELSE mapDelete(debounceTimers, invocations[i].key)
       ELSE /\ invocations' = afterRun(i, 1)
            /\ debounceTimers' = mapDelete(debounceTimers, invocations[i].key)
            /\ UNCHANGED <<processingCache, cacheTimers, storeOrder>>
    /\ UNCHANGED <<GRAMMAR_RULES, STYLE_RULES, now, ret, serviceVars>>

\* A millisecond passes.
Tick ==
    /\ now < MaxTime
    /\ now' = now + 1
    /\ UNCHANGED <<rulesVars, debounceTimers, invocations, ret, serviceVars>>

-----------------------------------------------------------------------------
(* CachingService: the suggestion cache with a size limit and time to live  *)

\* The number of entries the service is constructed for and the time to live
\* it is constructed with, scaled down.  Times to live are counted in ticks
\* of the clock.
MaxCapacity == 1
DefaultTtl == 2

\* A CacheEntry; createdAt and ttlSeconds are written and never read.
CacheEntry(suggestions, lastAccessedAt, expiresAt) ==
    [suggestions |-> suggestions, lastAccessedAt |-> lastAccessedAt, expiresAt |-> expiresAt]

\* `!key || key.trim().length === 0`
blankKey(key) == key = "" \/ Len(trim(key)) = 0

\* The loop of evictLeastRecentlyUsed over the entries from i on: the first
\* entry whose lastAccessedAt is below every one before it and below the
\* time the loop started with; "" stands for null.
RECURSIVE oldestKeyFrom(_, _, _, _)
oldestKeyFrom(entries, i, oldestKey, oldestTime) ==
    IF i > Len(entries) THEN oldestKey
    ELSE IF entries[i].value.lastAccessedAt < oldestTime
    THEN oldestKeyFrom(entries, i + 1, entries[i].key, entries[i].value.lastAccessedAt)
    ELSE oldestKeyFrom(entries, i + 1, oldestKey, oldestTime)

\* oldestKey of evictLeastRecentlyUsed when Date.now() is `time`.
oldestKey(entries, time) == oldestKeyFrom(entries, 1, "", time)

\* The cache after evictLeastRecentlyUsed().
evictLeastRecentlyUsed(entries, time) ==
    IF Len(entries) = 0 THEN entries
    ELSE IF oldestKey(entries, time) # "" THEN mapDelete(entries, oldestKey(entries, time))
    ELSE entries

\* A loop that would stop one entry above the limit.
aboveLimitByTwo(size, limit) == size > limit + 1

\* The condition of the loop of updateConfig.
aboveLimit(size, limit) == size > limit

\* get(key).  In the calls of the service `result` is the list a call
\* resolves to, empty for null and undefined, or the message of its error;
\* `note` tells the outcomes apart.
Get(key) ==
    /\ ~resizing
    /\ now < MaxTime
    /\ IF blankKey(key) \/ ~mapHas(suggestionCache, key)
       THEN /\ ret' = Call("get", [key |-> key], "resolve", <<>>, "miss")
            /\ suggestionCache' = suggestionCache
       ELSE IF now > mapGet(suggestionCache, key).expiresAt
       THEN /\ ret' = Call("get", [key |-> key], "resolve", <<>>, "expired")
            /\ suggestionCache' = mapDelete(suggestionCache, key)
       ELSE /\ ret' = Call("get", [key |-> key], "resolve", mapGet(suggestionCache, key).suggestions,
                            "hit")
            /\ suggestionCache' = mapSet(suggestionCache, key,
                                       [mapGet(suggestionCache, key) EXCEPT !.lastAccessedAt = now])
    /\ UNCHANGED <<rulesVars, debounceVars, overlayVars, expiry, maxCacheSize, defaultTtlSeconds, resizing>>

\* set(key, suggestions, ttlSeconds); ttlSeconds = 0 stands for a call
\* without the argument, which `ttlSeconds || this.defaultTtlSeconds` treats
\* alike.
Set(key, suggestions, ttlSeconds) ==
    LET ttl == IF ttlSeconds # 0 THEN ttlSeconds ELSE defaultTtlSeconds
        entry == CacheEntry(suggestions, now, now + ttl)
        room == IF Len(suggestionCache) >= maxCacheSize /\ ~mapHas(suggestionCache, key)
                THEN evictLeastRecentlyUsed(suggestionCache, now) ELSE suggestionCache
    IN /\ ~resizing
       /\ now < MaxTime
       /\ IF blankKey(key)
          THEN /\ ret' = Call("set", [key |-> key], "reject", <<"Cache key cannot be empty">>, "")
               /\ suggestionCache' = suggestionCache
          ELSE IF Len(suggestions) = 0
          THEN /\ ret' = Call("set", [key |-> key], "resolve", <<>>, "not cached")
               /\ suggestionCache' = suggestionCache
          ELSE /\ ret' = Call("set", [key |-> key], "resolve", <<>>,
                              IF room # suggestionCache THEN "evicted"
                              ELSE IF /\ Len(suggestionCache) >= maxCacheSize
                                      /\ ~mapHas(suggestionCache, key)
                              THEN "nothing evicted" ELSE "")
               /\ suggestionCache' = mapSet(room, key, entry)
       /\ UNCHANGED <<rulesVars, debounceVars, overlayVars, expiry, maxCacheSize, defaultTtlSeconds, resizing>>

\* invalidate(key)
Invalidate(key) ==
    /\ ~resizing
    /\ suggestionCache' = IF blankKey(key) THEN suggestionCache ELSE mapDelete(suggestionCache, key)
    /\ ret' = Call("invalidate", [key |-> key], "resolve", <<>>, "")
    /\ UNCHANGED <<rulesVars, debounceVars, overlayVars, expiry, maxCacheSize, defaultTtlSeconds, resizing>>

\* clear()
Clear ==
    /\ ~resizing
    /\ suggestionCache' = <<>>
    /\ ret' = Call("clear", [key |-> ""], "resolve", <<>>, "")
    /\ UNCHANGED <<rulesVars, debounceVars, overlayVars, expiry, maxCacheSize, defaultTtlSeconds, resizing>>

\* The callback of the cleanup interval: cleanupExpiredEntries().
RECURSIVE unexpired(_, _)
unexpired(entries, time) ==
    IF entries = <<>> THEN <<>>
    ELSE IF time > Head(entries).value.expiresAt THEN unexpired(Tail(entries), time)
    ELSE <<Head(entries)>> \o unexpired(Tail(entries), time)

CleanupExpiredEntries ==
    /\ ~resizing
    /\ suggestionCache' = unexpired(suggestionCache, now)
    /\ UNCHANGED <<rulesVars, debounceVars, overlayVars, expiry, maxCacheSize, defaultTtlSeconds, resizing,
                   ret>>

\* A configuration of updateConfig; -1 stands for a property that is not given.
CacheConfig(ttl, size) == [defaultTtlSeconds |-> ttl, maxCacheSize |-> size]

\* updateConfig(config) up to the loop: the fields are taken over, and the
\* call returns at once when no limit is given or the cache is within it.
UpdateConfig(config) ==
    /\ ~resizing
    /\ defaultTtlSeconds' = IF config.defaultTtlSeconds # -1 THEN config.defaultTtlSeconds
                            ELSE defaultTtlSeconds
    /\ maxCacheSize' = IF config.maxCacheSize # -1 THEN config.maxCacheSize ELSE maxCacheSize
    /\ resizing' = (/\ config.maxCacheSize # -1
                    /\ aboveLimit(Len(suggestionCache), config.maxCacheSize))
    /\ ret' = Call("updateConfig", config,
                   IF resizing' THEN "running" ELSE "return", <<>>, "")
    /\ UNCHANGED <<rulesVars, debounceVars, overlayVars, expiry, suggestionCache>>

\* One round of `while (this.cache.size > this.maxCacheSize)`: the call of
\* evictLeastRecentlyUsed reads the clock anew, and the call returns when
\* the condition fails after it.  The loop is synchronous: no other
\* operation of the service runs between its rounds, only time passes.
EvictionRound ==
    /\ resizing
    /\ suggestionCache' = evictLeastRecentlyUsed(suggestionCache, now)
    /\ resizing' = aboveLimit(Len(suggestionCache'), maxCacheSize)
    /\ ret' = IF resizing'
              THEN [ret EXCEPT !.note = IF suggestionCache' = suggestionCache THEN "spun" ELSE @]
              ELSE [ret EXCEPT !.outcome = "return"]
    /\ UNCHANGED <<rulesVars, debounceVars, overlayVars, expiry, maxCacheSize, defaultTtlSeconds>>

-----------------------------------------------------------------------------
(* OverlayService: suggestion overlays next to the focused text field      *)

\* config.maxOverlays of a new service and the number of window creations
\* that are awaited at the same time, scaled down.
MaxOverlays == 2
MaxCreating == 2

\* An OverlayEvent; the bounds only place the window.
OverlayEvent(type, elementId, text) == [type |-> type, elementId |-> elementId, text |-> text]

\* `overlay-${event.elementId || Date.now()}-${Date.now()}`
overlayIdOf(event, time) ==
    "overlay-" \o (IF event.elementId # "" THEN event.elementId ELSE indexString(time))
        \o "-" \o indexString(time)

\* An ActiveOverlay; position and window play no part in the bookkeeping.
ActiveOverlay(id, suggestions, elementId) ==
    [id |-> id, suggestions |-> suggestions, visible |-> TRUE, elementId |-> elementId]

\* The overlays after clearOldestOverlay(): the first key of the map goes.
clearOldestOverlay(overlays) == IF overlays = <<>> THEN overlays ELSE Tail(overlays)

\* The overlays when createOrUpdateOverlay reaches its await: the oldest one
\* is cleared when the map is full.
makeRoom(overlays, limit) ==
    IF Len(overlays) >= limit THEN clearOldestOverlay(overlays) ELSE overlays

\* handleTextFieldEvent(event) up to the await of createOverlayWindow in
\* createOrUpdateOverlay; `suggestions` is the number of suggestions the
\* handlers answer with.  The call ends here, or it waits for its window.
HandleTextFieldEvent(event, suggestions) ==
    /\ Len(creating) < MaxCreating
    /\ IF ~isActive \/ handlers = {}
       THEN UNCHANGED <<activeOverlays, creating>>
       ELSE IF event.type = "blur"
       THEN activeOverlays' = <<>> /\ creating' = creating
       ELSE IF \/ event.type \notin {"focus", "text-change"}
               \/ (event.type = "text-change" /\ trim(event.text) = "")
               \/ suggestions = 0
               \/ simulatedOverlayFailure
       THEN UNCHANGED <<activeOverlays, creating>>
       ELSE /\ activeOverlays' = makeRoom(activeOverlays, maxOverlays)
            /\ creating' = Append(creating, ActiveOverlay(overlayIdOf(event, now), suggestions,
                                                          event.elementId))
    /\ UNCHANGED <<rulesVars, debounceVars, ret, expiry, cachingVars, isActive, handlers,
                   maxOverlays, simulatedOverlayFailure>>

\* The sequence without its i-th element.
dropAt(seq, i) == SubSeq(seq, 1, i - 1) \o SubSeq(seq, i + 1, Len(seq))

\* createOverlayWindow resolves for the i-th waiting call, which goes on
\* behind its await and registers the overlay.
WindowCreated(i) ==
    /\ i \in 1..Len(creating)
    /\ activeOverlays' = mapSet(activeOverlays, creating[i].id, creating[i])
    /\ creating' = dropAt(creating, i)
    /\ UNCHANGED <<rulesVars, debounceVars, ret, expiry, cachingVars, isActive, handlers,
                   maxOverlays, simulatedOverlayFailure>>

\* createOverlayWindow rejects for the i-th waiting call: the catch block
\* reports the error and nothing is registered.
WindowFailed(i) ==
    /\ i \in 1..Len(creating)
    /\ creating' = dropAt(creating, i)
    /\ UNCHANGED <<rulesVars, debounceVars, ret, expiry, cachingVars, isActive, handlers,
                   maxOverlays, simulatedOverlayFailure, activeOverlays>>

\* updateConfig(newConfig); maxOverlays = -1 stands for a configuration
\* without the property.
UpdateOverlayConfig(newConfig) ==
    /\ maxOverlays' = IF newConfig.maxOverlays # -1 THEN newConfig.maxOverlays ELSE maxOverlays
    /\ UNCHANGED <<rulesVars, debounceVars, ret, expiry, cachingVars, isActive, handlers,
                   creating, simulatedOverlayFailure, activeOverlays>>

\* start() and stop(), behind their awaits.
Start ==
    /\ ~isActive
    /\ isActive' = TRUE
    /\ UNCHANGED <<rulesVars, debounceVars, ret, expiry, cachingVars, handlers, maxOverlays,
                   creating, simulatedOverlayFailure, activeOverlays>>

Stop ==
    /\ isActive
    /\ activeOverlays' = <<>>
    /\ isActive' = FALSE
    /\ UNCHANGED <<rulesVars, debounceVars, ret, expiry, cachingVars, handlers, maxOverlays,
                   creating, simulatedOverlayFailure>>

\* registerHandler(handler) and unregisterHandler(handler)
RegisterHandler(handler) ==
    /\ handlers' = handlers \cup {handler}
    /\ UNCHANGED <<rulesVars, debounceVars, ret, expiry, cachingVars, isActive, maxOverlays,
                   creating, simulatedOverlayFailure, activeOverlays>>

UnregisterHandler(handler) ==
    /\ handlers' = handlers \ {handler}
    /\ UNCHANGED <<rulesVars, debounceVars, ret, expiry, cachingVars, isActive, maxOverlays,
                   creating, simulatedOverlayFailure, activeOverlays>>

\* simulateOverlayFailure(shouldFail)
SimulateOverlayFailure(shouldFail) ==
    /\ simulatedOverlayFailure' = shouldFail
    /\ UNCHANGED <<rulesVars, debounceVars, ret, expiry, cachingVars, isActive, handlers,
                   maxOverlays, creating, activeOverlays>>

-----------------------------------------------------------------------------
(* The rule engines as a state machine                                     *)

GoodEntry == Entry("punctuation", "[.!?]{2,}", "g", "Repeated mark", "", "warning", "")
TehEntry == Entry("spelling", "teh", "i", "Use \"the\"", "", "error", "")

ZeroRules == Config("ok", TRUE, <<>>)
MissingMessage ==
    Config("ok", TRUE, <<GoodEntry, Entry("punctuation", "\\s{2,}", "g", "", "", "warning", "")>>)

GrammarConfigs == {
    ZeroRules,
    Config("ok", TRUE, <<TehEntry, GoodEntry>>),
    MissingMessage,
    Config("ok", TRUE, <<GoodEntry, Entry("punctuation", "\\s{2,}", "g", "Double space", "", "info", "")>>),
    Config("ok", TRUE, <<GoodEntry, Entry("punctuation", "(", "", "Open", "", "error", "")>>),
    Config("ok", TRUE, <<Entry("style", "teh", "", "Typo", "", "error", "")>>),
    Config("ok", FALSE, <<>>),
    Config("unreadable", FALSE, <<>>),
    Config("malformed", FALSE, <<>>) }

GoodStyleEntry == Entry("wordiness", "teh", "gi", "Typo", "Spell it out.", "info", "return 'the'")

StyleConfigs == {
    Config("ok", TRUE, <<>>),
    Config("ok", TRUE, <<GoodStyleEntry>>),
    Config("ok", TRUE, <<GoodStyleEntry, Entry("wordiness", "teh", "gi", "Typo", "", "info", "")>>),
    Config("ok", TRUE, <<GoodStyleEntry, Entry("wordiness", "teh", "gi", "Typo", "x", "fatal", "")>>),
    Config("ok", TRUE, <<GoodStyleEntry, Entry("wordiness", "[a-", "gi", "Typo", "x", "info", "")>>),
    Config("ok", TRUE, <<Entry("wordiness", "teh", "gi", "Typo", "x", "info", "return (")>>),
    Config("ok", TRUE, <<Entry("passive-voice", "It was written by Al", "i", "Passive", "x",
                               "warning", "throw 0")>>),
    Config("ok", TRUE, <<Entry("wordiness", "\\s*", "g", "Spacing", "x", "info", "")>>),
    Config("malformed", FALSE, <<>>) }

NoCall == Call("none", Undefined, "return", <<>>, "")

Init ==
    /\ GRAMMAR_RULES = DefaultGrammarRules
    /\ STYLE_RULES = DefaultStyleRules
    /\ processingCache = <<>>
    /\ cacheTimers = <<>>
    /\ storeOrder = <<>>
    /\ now = 0
    /\ debounceTimers = <<>>
    /\ invocations = <<>>
    /\ ret = NoCall
    /\ expiry = NoExpiry
    /\ suggestionCache = <<>>
    /\ maxCacheSize = MaxCapacity
    /\ defaultTtlSeconds = DefaultTtl
    /\ resizing = FALSE
    /\ isActive = FALSE
    /\ handlers = {}
    /\ activeOverlays = <<>>
    /\ maxOverlays = MaxOverlays
    /\ creating = <<>>
    /\ simulatedOverlayFailure = FALSE

vars == <<GRAMMAR_RULES, STYLE_RULES, processingCache, cacheTimers, storeOrder,
          now, debounceTimers, invocations, ret, expiry,
          suggestionCache, maxCacheSize, defaultTtlSeconds, resizing,
          isActive, handlers, activeOverlays, maxOverlays, creating, simulatedOverlayFailure>>

\* The grammar engine: checks, cache expiry, and reconfiguration with an
\* empty and with a malformed rule table.
Next ==
    \/ \E v \in GrammarInputs : CheckGrammar(v)
    \/ CacheTimerFires
    \/ \E c \in {ZeroRules, MissingMessage} : LoadRulesFromConfig(c)

Spec == Init /\ [][Next]_vars

\* The grammar engine on the clock: checks and the expiry of their results.
ExpiryInputs == {Str("Hello"), Str(" Hello"), Str("caat eror wrold\nWe is  ok,he are"),
                 Str("caats caat"), Str("")}

NextExpiry ==
    \/ \E v \in ExpiryInputs : CheckGrammarAt(v)
    \/ ExpiryTimerFires
    \/ Tick

SpecExpiry == Init /\ [][NextExpiry]_vars

\* Tone detection: the sample texts, and the score of a tone for every word
\* count and raw score.
NextTone ==
    \/ \E v \in ToneInputs : DetectTone(v)
    \/ \E score \in 0..MaxRawScore, words \in 1..MaxWords : ScoreTone(score, words)

SpecTone == Init /\ [][NextTone]_vars

\* The suggestion cache: its operations, the cleanup interval and the clock.
CacheKeys == {"a", "b", " "}
CacheConfigs == {CacheConfig(ttl, size) : ttl \in {-1, 1}, size \in {-1} \cup 0..MaxCapacity}

NextCaching ==
    \/ \E key \in CacheKeys : Get(key)
    \/ \E key \in CacheKeys, suggestions \in {<<>>, <<"x">>}, ttlSeconds \in {0, 1} :
           Set(key, suggestions, ttlSeconds)
    \/ \E key \in CacheKeys : Invalidate(key)
    \/ Clear
    \/ CleanupExpiredEntries
    \/ \E config \in CacheConfigs : UpdateConfig(config)
    \/ EvictionRound
    \/ Tick

\* Time passes while the loop of updateConfig runs, and the loop goes on.
SpecCaching ==
    Init /\ [][NextCaching]_vars /\ WF_vars(Tick) /\ WF_vars(EvictionRound)

\* The overlay service: events handled concurrently, the windows they wait
\* for, reconfiguration, and the clock.
OverlayEvents ==
    {OverlayEvent(type, elementId, "Teh") : type \in {"focus", "blur"}, elementId \in {"e1", ""}}
    \cup {OverlayEvent("text-change", "e1", text) : text \in {"Teh", " "}}

NextOverlay ==
    \/ \E event \in OverlayEvents, suggestions \in 0..1 : HandleTextFieldEvent(event, suggestions)
    \/ \E i \in 1..MaxCreating : WindowCreated(i)
    \/ \E i \in 1..MaxCreating : WindowFailed(i)
    \/ \E limit \in {-1, 1, MaxOverlays} : UpdateOverlayConfig([maxOverlays |-> limit])
    \/ Start
    \/ Stop
    \/ RegisterHandler("h")
    \/ UnregisterHandler("h")
    \/ \E shouldFail \in BOOLEAN : SimulateOverlayFailure(shouldFail)
    \/ Tick

SpecOverlay == Init /\ [][NextOverlay]_vars

\* Reconfiguration of both rule tables with every sample configuration.
NextConfig ==
    \/ \E c \in GrammarConfigs : LoadRulesFromConfig(c)
    \/ \E c \in StyleConfigs : LoadStyleGuide(c)
    \/ \E v \in {Str("Teh end?!"), Str("Hello")} : CheckGrammar(v)
    \/ \E v \in {Str("Teh thing. It was written by Al"), Num("5")} : SuggestStyle(v)
    \/ CacheTimerFires

SpecConfig == Init /\ [][NextConfig]_vars

\* The text entry points that keep no state: rewriting, tone detection,
\* style suggestions and tagging.
NextText ==
    \/ \E v \in RewriteInputs, tone \in Tones, enrichment \in Enrichments, duration \in Durations :
           RewriteSentence(v, tone, enrichment, duration)
    \/ \E v \in ToneInputs : DetectTone(v)
    \/ \E v \in StyleInputs : SuggestStyle(v)
    \/ \E c \in TaggerCalls : PosTagger(c[1], c[2])
    \/ \E tokens \in EntityTokens, found \in Findings, dictionary \in Dictionaries :
           EntityRecognizer(tokens, found, dictionary)
    \/ \E synonyms \in SynonymSamples, context \in Contexts : ScoreSynonyms(synonyms, context)
    \/ \E v \in CandidateWords, context \in Contexts, dictionary \in SynonymDictionaries,
          scorer \in Scorers : GetCandidates(v, context, dictionary, scorer)
    \/ \E c \in InlineCalls, provider \in Providers :
           ProcessInlineEnhancements(c[1], c[2], provider)
    \/ \E c \in TaggerCalls, provider \in Providers : ProcessText(c[1], c[2], provider)

SpecText == Init /\ [][NextText]_vars

MonitorInputs == {Str("Hello"), Str("")}
InlineInputs == {Str("Hello"), Num("5")}

\* The debounced entry points, their timers and the clock.  Date.now() is
\* taken to be later when a timer fires than it was when the timer was set.
NextDebounce ==
    \/ \E v \in MonitorInputs, throws \in BOOLEAN : MonitorRealTimeGrammar(v, throws)
    \/ \E v \in InlineInputs : SuggestInlineEnhancements(v)
    \/ \E i \in 1..MaxInvocations : DebounceTimerFires(i)
    \/ Tick
    \/ CacheTimerFires

\* The event loop runs every timer that is due, and time passes.
SpecDebounce ==
    /\ Init /\ [][NextDebounce]_vars
    /\ \A i \in 1..MaxInvocations : WF_vars(DebounceTimerFires(i))
    /\ WF_vars(Tick)
    /\ WF_vars(CacheTimerFires)

-----------------------------------------------------------------------------
(* Claims about the rule engines                                           *)

\* C1: with the rule table unchanged (here: never reconfigured),
\* checkGrammar(s) returns the same issue list for the same string s on every
\* call, whatever was checked before and whether the cache answers or the
\* text is checked again: every call returns the list that checking s
\* itself gives.
C1_SameAnswerEveryCall ==
    (ret.op = "checkGrammar" /\ ret.input.t = "string" /\ GRAMMAR_RULES = DefaultGrammarRules)
        => ret.result = IF grammarInputRejected(ret.input) THEN <<>>
                        ELSE computeIssues(DefaultGrammarRules, ret.input.s)

\* A rule entry of a grammar (style) configuration is invalid: a required
\* field is missing, the severity is unknown, or the pattern does not compile.
grammarEntryInvalid(e) ==
    \/ e.type = "" \/ e.pattern = "" \/ e.message = "" \/ e.severity = ""
    \/ e.severity \notin {"error", "warning"}
    \/ regExpThrows(e.pattern, e.flags)
styleEntryInvalid(e) ==
    \/ e.type = "" \/ e.pattern = "" \/ e.message = "" \/ e.explanation = "" \/ e.severity = ""
    \/ e.severity \notin {"info", "warning", "error"}
    \/ regExpThrows(e.pattern, e.flags)
hasInvalidEntry(op, config) ==
    /\ config.file = "ok" /\ config.isArray
    /\ \E i \in 1..Len(config.rules) :
           IF op = "loadRulesFromConfig" THEN grammarEntryInvalid(config.rules[i])
           ELSE styleEntryInvalid(config.rules[i])

\* C2: a reconfiguration of the grammar or the style table with a
\* configuration that holds an invalid rule entry throws, and leaves both
\* active tables exactly as they were: the same rules in the same order.
C2_InvalidConfigLeavesTable ==
    [][ (ret'.op \in {"loadRulesFromConfig", "loadStyleGuide"}
            /\ hasInvalidEntry(ret'.op, ret'.input))
        => /\ ret'.outcome = "throw"
           /\ GRAMMAR_RULES' = GRAMMAR_RULES
           /\ STYLE_RULES' = STYLE_RULES ]_vars

\* A failed reconfiguration has just left in place the two tables loaded before it.
C2_Witness ==
    /\ ret.op = "loadStyleGuide" /\ ret.outcome = "throw" /\ hasInvalidEntry(ret.op, ret.input)
    /\ Len(STYLE_RULES) = 1
    /\ Len(GRAMMAR_RULES) = 2

\* C3: a reconfiguration with zero rules is accepted, and once it has
\* succeeded every checkGrammar call, also for a text checked before the
\* reconfiguration, returns only issues of the misspelling table.
C3_ZeroRulesOnlySpelling ==
    /\ (ret.op = "loadRulesFromConfig" /\ ret.input = ZeroRules)
           => (ret.outcome = "return" /\ GRAMMAR_RULES = <<>>)
    /\ (ret.op = "checkGrammar" /\ GRAMMAR_RULES = <<>>)
           => \A i \in 1..Len(ret.result) : ret.result[i].type = "spelling"

\* The input of the last call is a string that is neither empty nor only whitespace.
nonBlankInput == ret.input.t = "string" /\ Len(trim(ret.input.s)) > 0

\* C4: for every string s that is not empty and not only whitespace, every
\* tone and every outcome of enrichment, rewriteSentence(s, tone) resolves
\* to a list of exactly 3 strings whose element 0 is s.
C4_ThreeRewritesFirstIsInput ==
    (ret.op = "rewriteSentence" /\ nonBlankInput)
        => /\ ret.outcome = "resolve"
           /\ Len(ret.result) = 3
           /\ ret.result[1] = ret.input.s

\* The loop that fills the list up to 3 has added a variation of the sentence.
C4_Witness ==
    /\ ret.op = "rewriteSentence" /\ nonBlankInput
    /\ ~ret.input.enrichment.rejects /\ ret.input.duration <= 200
    /\ ret.input.tone = "polite"
    /\ ret.result = <<"Go", "Would you please go", "Go (variant 2)">>

\* C5: rewriteSentence never rejects; when enrichment rejects, a rewrite
\* step throws or the measured duration exceeds 200 ms, it resolves to
\* [sentence, sentence, sentence].
C5_FailureGivesSentenceThrice ==
    ret.op = "rewriteSentence"
        => /\ ret.outcome = "resolve"
           /\ (/\ nonBlankInput
               /\ \/ ret.input.enrichment.rejects
                  \/ synonymRewriteThrows(ret.input.enrichment.tokens, ret.input.tone)
                  \/ ret.input.duration > 200)
                  => ret.result = <<ret.input.s, ret.input.s, ret.input.s>>

\* A rewrite step has thrown within the time budget on a sentence that has rewrites.
C5_Witness ==
    /\ ret.op = "rewriteSentence" /\ ret.input.s = "A large building"
    /\ ~ret.input.enrichment.rejects /\ ret.input.duration <= 200
    /\ synonymRewriteThrows(ret.input.enrichment.tokens, ret.input.tone)
    /\ ret.result = <<"A large building", "A large building", "A large building">>

\* The score is a number between 0 and 1.
inUnitInterval(score) == ~less(score, Fraction(0, 1)) /\ ~less(Fraction(1, 1), score)

\* C6: for every string s, the empty string included, detectTone(s)
\* returns exactly 4 entries, one for each of the four tones, each with a
\* score in [0,1], in non-increasing order of score.
C6_FourTonesAlways ==
    (ret.op = "detectTone" /\ ret.input.t = "string")
        => /\ Len(ret.result) = 4
           /\ {ret.result[i].tone : i \in 1..Len(ret.result)}
                  = {"formal", "informal", "friendly", "professional"}
           /\ \A i \in 1..Len(ret.result) : inUnitInterval(ret.result[i].score)
           /\ \A i \in 1..(Len(ret.result) - 1) :
                  ~less(ret.result[i].score, ret.result[i + 1].score)

\* C10: the cache never holds more than CACHE_SIZE_LIMIT entries, and the
\* entry a store removes from a full cache is the one stored earliest among
\* the entries present.
C10_BoundedOldestEvicted ==
    [][ /\ Len(processingCache') <= CACHE_SIZE_LIMIT
        /\ Len(cacheTimers') > Len(cacheTimers) =>
               \A i \in 1..Len(processingCache) :
                   ~mapHas(processingCache', processingCache[i].key)
                       => processingCache[i].key = Head(storeOrder) ]_vars

\* A store into a full cache has just evicted an entry.
C10_Witness ==
    /\ ret.op = "checkGrammar" /\ Len(ret.note) > 8 /\ SubSeq(ret.note, 1, 8) = "evicted:"
    /\ Len(processingCache) = CACHE_SIZE_LIMIT

-----------------------------------------------------------------------------
(* Claims about debouncing                                                 *)

pendingIn(pending, i) == i \in 1..Len(pending) /\ pending[i].state = "pending"
cancelledIn(pending, i) == i \in 1..Len(pending) /\ pending[i].state = "cancelled"
ranOnceIn(pending, i) == i \in 1..Len(pending) /\ pending[i].runs = 1

\* Invocation i was replaced by a later invocation under the same key while
\* its timer was pending: it never runs and hands over no result.
supersededNeverRuns ==
    \A i \in 1..Len(invocations) :
        invocations[i].state = "cancelled"
            => /\ invocations[i].runs = 0 /\ invocations[i].delivered = 0
               /\ \E j \in (i + 1)..Len(invocations) : invocations[j].key = invocations[i].key

\* An invocation runs at most once, and not before its delay has passed.
runsOnceAfterDelay ==
    \A i \in 1..Len(invocations) :
        /\ invocations[i].runs <= 1
        /\ invocations[i].runs = 1 => invocations[i].ranAt >= invocations[i].due
        /\ invocations[i].state = "fired" <=> invocations[i].runs = 1

\* The live timers have distinct keys, and debounceTimers holds each of them
\* under its key.
oneLiveTimerPerKey ==
    \A i \in 1..Len(invocations) :
        invocations[i].state = "pending"
            => /\ mapHas(debounceTimers, invocations[i].key)
               /\ mapGet(debounceTimers, invocations[i].key) = i
               /\ \A j \in 1..Len(invocations) :
                      (j # i /\ invocations[j].state = "pending")
                          => invocations[j].key # invocations[i].key

\* C7: when a debounced function is invoked under a key while an earlier
\* invocation under that key is pending, the earlier one never executes and
\* delivers nothing; an invocation that is not superseded executes exactly
\* once, after its delay; and at every moment at most one timer per key is
\* live, the one debounceTimers holds.
C7_DebounceKeepsLatest ==
    /\ [](supersededNeverRuns /\ runsOnceAfterDelay /\ oneLiveTimerPerKey)
    /\ \A i \in 1..MaxInvocations :
           [](pendingIn(invocations, i)
                 => <>(cancelledIn(invocations, i) \/ ranOnceIn(invocations, i)))

\* Reached: an invocation was superseded under its key and the later one ran.
C7_Witness ==
    \E i \in 1..Len(invocations) : \E j \in (i + 1)..Len(invocations) :
        /\ invocations[i].key = invocations[j].key
        /\ invocations[i].state = "cancelled"
        /\ invocations[j].runs = 1

\* C8: monitorRealTimeGrammar returns without throwing for every input and
\* every callback, and has not called the callback when it returns.
C8_MonitorReturnsBeforeCallback ==
    ret.op = "monitorRealTimeGrammar" => (ret.outcome = "return" /\ ret.result = <<>>)

-----------------------------------------------------------------------------
(* Claims about invalid input                                              *)

EntryPoints == {"checkGrammar", "suggestStyle", "posTagger", "processText", "rewriteSentence",
                "detectTone", "suggestInlineEnhancements", "monitorRealTimeGrammar"}

\* The input of the last call is empty, whitespace-only or no string.
invalidInput == ret.input.t # "string" \/ Len(trim(ret.input.s)) = 0

\* The empty or degenerate result of the entry point that was called last.
degenerateResult ==
    CASE ret.op = "rewriteSentence" -> ret.result \in {<<"">>, <<ret.input.s>>}
      [] ret.op = "monitorRealTimeGrammar" -> \A i \in 1..Len(ret.result) : ret.result[i] = <<>>
      [] OTHER -> ret.result = <<>>

\* C9: every public entry point that is given empty, whitespace-only or
\* non-string input returns (resolves with) an empty or degenerate result;
\* it neither throws nor rejects.
C9_InvalidInputNeverThrows ==
    (ret.op \in EntryPoints /\ invalidInput)
        => (ret.outcome \in {"return", "resolve"} /\ degenerateResult)

-----------------------------------------------------------------------------
(* Claims about tokens and entities                                        *)

\* The token carries offsets that are an interval of s holding its text.
spansItsText(s, token) ==
    /\ {"start", "end"} \subseteq DOMAIN token
    /\ 0 <= token.start /\ token.start <= token.end /\ token.end <= Len(s)
    /\ SubSeq(s, token.start + 1, token.end) = token.text

\* C11: for every string s, every token posTagger(s) returns has
\* 0 <= start <= end <= len(s), the characters of s from start to end are
\* its text, and the end of each token is at most the start of the next.
C11_TokensSpanTheirText ==
    (ret.op = "posTagger" /\ ret.input.t = "string" /\ ret.outcome = "return")
        => /\ \A i \in 1..Len(ret.result) : spansItsText(ret.input.s, ret.result[i])
           /\ \A i \in 1..(Len(ret.result) - 1) : ret.result[i].end <= ret.result[i + 1].start

\* The offset of token i in the text reconstructed from the tokens.
offsetInReconstructed(tokens, i) ==
    IF i = 1 THEN 0 ELSE Len(reconstructedText(SubSeq(tokens, 1, i - 1))) + 1

\* The first index at which the tokens read the words, ignoring case; -1 if none.
earliestMatch(words, tokens) ==
    firstIndex({i \in 1..(Len(tokens) - Len(words) + 1) :
        \A k \in 1..Len(words) : toLowerCase(tokens[i + k - 1].text) = words[k]})

\* The span covers tokens first..last in the reconstructed text.
coversTokens(span, tokens, first, last) ==
    /\ first >= 1
    /\ span.start = offsetInReconstructed(tokens, first)
    /\ span.end = offsetInReconstructed(tokens, last) + Len(tokens[last].text)
    /\ 0 <= span.start /\ span.start <= span.end
    /\ span.end <= Len(reconstructedText(tokens))
    /\ SubSeq(reconstructedText(tokens), span.start + 1, span.end)
           = reconstructedText(SubSeq(tokens, first, last))

coversEarliestMatch(span, tokens, words) ==
    coversTokens(span, tokens, earliestMatch(words, tokens),
                 earliestMatch(words, tokens) + Len(words) - 1)

\* C12: every Person, Location or Organization span entityRecognizer emits
\* has the offsets, in the token texts joined by single spaces, of the
\* earliest token subsequence that reads the words of the entity, whether
\* the tokens carry start offsets of their own or not.
C12_SpansCoverEarliestTokens ==
    ret.op = "entityRecognizer"
        => \A j \in 1..Len(ret.result) :
               ret.result[j].type \in {"Person", "Location", "Organization"}
                   => coversEarliestMatch(ret.result[j], ret.input.tokens,
                          splitSpaces(toLowerCase(ret.result[j].text), 0))

-----------------------------------------------------------------------------
(* Claims about synonym candidates                                         *)

\* The score-table entries for the candidate in the domains whose keywords
\* contain a word of the context.
matchingEntries(config, synonym, context) ==
    {config.contextMappings[i].synonymScores[toLowerCase(synonym)] :
        i \in {i \in 1..Len(config.contextMappings) :
                  /\ hasContextKeywords(config.contextMappings[i], lowerAll(context))
                  /\ toLowerCase(synonym) \in DOMAIN config.contextMappings[i].synonymScores}}

greatest(scores) == CHOOSE s \in scores : \A r \in scores : ~less(s, r)

\* C13: in the keyword-table scoring strategy with a non-empty context, the
\* score of a candidate is the maximum of its score-table entries in the
\* domains that a context word triggers (0.1 when the only such entry is
\* 0.1), and the default 0.5 when there is no such entry.
C13_ScoreIsMaxOfMatchingEntries ==
    (ret.op = "scoreSynonyms" /\ Len(ret.input.context) > 0)
        => \A i \in 1..Len(ret.result) :
               ret.result[i].score =
                   IF matchingEntries(DEFAULT_CONTEXT_CONFIG, ret.result[i].synonym,
                                      ret.input.context) = {}
                   THEN DEFAULT_CONTEXT_CONFIG.defaultScore
                   ELSE greatest(matchingEntries(DEFAULT_CONTEXT_CONFIG, ret.result[i].synonym,
                                                 ret.input.context))

\* The last call was a getCandidates whose scoring strategy was called and threw.
scoringThrew ==
    /\ ret.op = "getCandidates" /\ ret.input.scorer = "throws"
    /\ blankGuard(Str(ret.input.s)) = "text" /\ ret.input.t = "string"
    /\ Len(ret.input.context) > 0
    /\ dictionaryCandidates(ret.input.s, ret.input.dictionary) # <<>>

\* C14: when the scoring strategy throws during a context-aware
\* getCandidates(word, context), the call does not reject and returns the
\* candidate list of the base provider in its original order.
C14_ScoringFailureGivesBaseList ==
    scoringThrew
        => /\ ret.outcome = "resolve"
           /\ ret.result = dictionaryCandidates(ret.input.s, ret.input.dictionary)

\* Reached: the scorer threw and the call returned a list of several candidates.
C14_Witness == scoringThrew /\ Len(ret.result) >= 2 /\ ret.outcome = "resolve"

-----------------------------------------------------------------------------
(* Claims about the location of issues                                     *)

AgreementExample == "The cats is running."

\* C15: under the default rules checkGrammar("The cats is running.") returns
\* a subject-verb-agreement issue located at the "is" token: line 1 and the
\* 1-based column at which "is" starts.
C15_AgreementIssueAtVerb ==
    (/\ ret.op = "checkGrammar" /\ ret.input = Str(AgreementExample)
     /\ GRAMMAR_RULES = DefaultGrammarRules)
        => \E i \in 1..Len(ret.result) :
               /\ ret.result[i].type = "subject-verb-agreement"
               /\ ret.result[i].line = 1
               /\ ret.result[i].column = indexOf(AgreementExample, " is ") + 2

-----------------------------------------------------------------------------
(* Claims about inline enhancements                                        *)

\* C16: every InlineSuggestion that suggestInlineEnhancements resolves with
\* carries at least two alternatives, the vocabulary suggestions and the
\* style-pattern suggestions alike.
C16_AtLeastTwoAlternatives ==
    (ret.op = "suggestInlineEnhancements" /\ ret.outcome = "resolve")
        => \A i \in 1..Len(ret.result) : Len(ret.result[i].suggestions) >= 2

-----------------------------------------------------------------------------
(* Claims about reconfiguration                                            *)

\* The texts whose check results are compared across a registration.
ComparedTexts == {Str("Teh end?!"), Str("Hello"), Str("Teh thing. It was written by Al")}

\* The last call registered the valid configuration c through the entry point op.
justRegistered(op, c) == ret.op = op /\ ret.outcome = "return" /\ ret.input = c

\* The valid configuration c has been registered and no other since: the
\* last call registered it, or the active table is the one it gives.
grammarRegistered(c) ==
    \/ justRegistered("loadRulesFromConfig", c)
    \/ readGrammarConfig(c).error = "" /\ GRAMMAR_RULES = readGrammarConfig(c).rules
styleRegistered(c) ==
    \/ justRegistered("loadStyleGuide", c)
    \/ readStyleConfig(c).error = "" /\ STYLE_RULES = readStyleConfig(c).rules

\* C17: registering a valid rule table that is already the registered one
\* leaves the active table as it is, and every text is checked after the
\* second registration with the result it had after the first; for the
\* grammar table and for the style table.
C17_RegisteringTwiceIsOnce ==
    [][ /\ \A c \in GrammarConfigs :
              (LoadRulesFromConfig(c) /\ grammarRegistered(c))
                  => /\ GRAMMAR_RULES' = GRAMMAR_RULES
                     /\ \A v \in ComparedTexts :
                            checkGrammar(GRAMMAR_RULES', processingCache', v).results
                                = checkGrammar(GRAMMAR_RULES, processingCache, v).results
        /\ \A c \in StyleConfigs :
              (LoadStyleGuide(c) /\ styleRegistered(c))
                  => /\ STYLE_RULES' = STYLE_RULES
                     /\ \A v \in ComparedTexts :
                            styleResult(STYLE_RULES', v) = styleResult(STYLE_RULES, v) ]_vars

\* A table other than the initial one has been registered a second time
\* while the cache held a result.
C17_Witness ==
    /\ ret.op = "loadRulesFromConfig" /\ ret.note = "table registered before"
    /\ GRAMMAR_RULES # DefaultGrammarRules /\ Len(GRAMMAR_RULES) > 0
    /\ processingCache # <<>>

-----------------------------------------------------------------------------
(* Claims about the removal of cache entries                               *)

\* The step is a store into a full cache and i is the place of the oldest key.
evictedByStore(i) ==
    Len(cacheTimers') > Len(cacheTimers) /\ Len(processingCache) >= CACHE_SIZE_LIMIT /\ i = 1

\* The step is the expiry timer of the entry now held under the key: the
\* timer set by the last store under the key, so no later timer has the key.
ownExpiry(key) ==
    /\ cacheTimers # <<>> /\ cacheTimers' = Tail(cacheTimers) /\ Head(cacheTimers) = key
    /\ \A j \in 2..Len(cacheTimers) : cacheTimers[j] # key

\* C20: an entry leaves the rule-check cache only when a store at capacity
\* evicts it as the oldest key or when its own expiry timer fires; the timer
\* of an earlier entry under the same key never removes a later entry.
C20_RemovedByEvictionOrOwnExpiry ==
    [][ \A i \in 1..Len(processingCache) :
            ~mapHas(processingCache', processingCache[i].key)
                => evictedByStore(i) \/ ownExpiry(processingCache[i].key) ]_vars

-----------------------------------------------------------------------------
(* Claims about concurrent debounced calls                                 *)

\* Invocation i is a call of suggestInlineEnhancements that was let through
\* to the debounced processing, and: its promise has been resolved.
inlineCallIn(pending, i) ==
    i \in 1..Len(pending) /\ pending[i].op = "suggestInlineEnhancements"
resolvedIn(pending, i) == i \in 1..Len(pending) /\ pending[i].delivered >= 1

\* C18: every call of suggestInlineEnhancements with a non-empty text
\* eventually resolves, whatever other calls of suggestInlineEnhancements are
\* made meanwhile, calls within the same millisecond included.
C18_EveryInlineCallResolves ==
    \A i \in 1..MaxInvocations :
        [](inlineCallIn(invocations, i) => <>resolvedIn(invocations, i))

\* The time at which invocation i was made: its timer is due one delay later.
calledAt(pending, i) ==
    pending[i].due - (IF pending[i].op = "monitorRealTimeGrammar" THEN MonitorDelay
                      ELSE InlineDelay)

\* C19: when suggestInlineEnhancements or monitorRealTimeGrammar is called
\* again before the delay of the previous call has elapsed, the processing
\* of the earlier call is cancelled: it never runs, only that of the call
\* scheduled last does.
C19_LaterCallCancelsEarlier ==
    \A i \in 1..Len(invocations) : \A j \in (i + 1)..Len(invocations) :
        (/\ invocations[j].op = invocations[i].op
         /\ calledAt(invocations, j) < invocations[i].due)
            => invocations[i].state = "cancelled" /\ invocations[i].runs = 0

-----------------------------------------------------------------------------
(* Claims about the age of cached results                                  *)

\* C21: a result stored in the rule-check cache at the time t is not
\* returned by a call of checkGrammar made later than t + CACHE_TTL: every
\* cache hit returns an entry that is at most CACHE_TTL old.
C21_NoHitAfterTimeToLive ==
    expiry.hitAt # -1 => expiry.hitAt <= expiry.hitStored + CACHE_TTL

-----------------------------------------------------------------------------
(* Claims about the issues of a line                                       *)

\* The lines of the input as checkGrammar numbers them.
linesOf(s) == IF includes(s, "\n") THEN split(s, "\n") ELSE <<s>>

spellingIssuesOn(issues, n) ==
    SelectSeq(issues, LAMBDA x : x.line = n /\ x.type = "spelling")
ruleIssuesOn(issues, n) ==
    SelectSeq(issues, LAMBDA x : x.line = n /\ x.type # "spelling")

\* Every issue of the list stems from a rule of its own: rules in declaration
\* order, each matching the line, with the column of its first match.
fromRulesInOrder(rules, line, issues) ==
    \E k \in [1..Len(issues) -> 1..Len(rules)] :
        /\ \A i \in 1..(Len(issues) - 1) : k[i] < k[i + 1]
        /\ \A i \in 1..Len(issues) :
               /\ issues[i].type = rules[k[i]].type
               /\ issues[i].message = rules[k[i]].message
               /\ exec(rules[k[i]].pattern, line) # -1
               /\ issues[i].column = exec(rules[k[i]].pattern, line) + 1

\* The issue list `issues` is one that the claim allows for the text s.
issuesWellFormed(rules, s, issues) ==
    /\ \A i \in 1..Len(issues) : issues[i].line \in 1..Len(linesOf(s))
    /\ \A i \in 1..(Len(issues) - 1) :
           \/ issues[i].line < issues[i + 1].line
           \/ /\ issues[i].line = issues[i + 1].line
              /\ issues[i].type # "spelling" => issues[i + 1].type # "spelling"
    /\ \A n \in 1..Len(linesOf(s)) :
           /\ Len(spellingIssuesOn(issues, n)) <= 2
           /\ Len(ruleIssuesOn(issues, n)) <= 3
           /\ fromRulesInOrder(rules, linesOf(s)[n], ruleIssuesOn(issues, n))

\* C22: for each line of the input checkGrammar emits at most 2 spelling
\* issues and at most 3 rule issues; every rule issue is the first match of a
\* rule of its own (column = match index + 1); within a line the spelling
\* issues come first and the rule issues follow the order of the table; and
\* the issues of an earlier line come before those of a later line.
C22_IssuesOfALine ==
    (/\ ret.op = "checkGrammar" /\ ret.input.t = "string"
     /\ ~grammarInputRejected(ret.input) /\ GRAMMAR_RULES = DefaultGrammarRules)
        => issuesWellFormed(GRAMMAR_RULES, ret.input.s, ret.result)


\* The word occurs in the line at the 0-based index i as a whole word, in any
\* case: a non-word character or the boundary of the line on each side.
wholeWordAt(line, word, i) ==
    /\ occursAt(toLowerCase(line), word, i)
    /\ ~isWordChar(charAt(line, i - 1))
    /\ ~isWordChar(charAt(line, i + Len(word)))

\* The words of the misspelling table (by their place in it) that occur in
\* the line as whole words.
misspellingsIn(line) ==
    {k \in 1..Len(Misspelled) : \E i \in 0..Len(line) : wholeWordAt(line, Misspelled[k], i)}

\* C23: checkGrammar reports a spelling issue for every word of the
\* misspelling table that occurs somewhere in a line as a whole word, up to
\* the cap of 2 spelling issues per line, and the column of the issue is the
\* 1-based index of that whole-word occurrence.
C23_WholeWordMisspellingsReported ==
    (/\ ret.op = "checkGrammar" /\ ret.input.t = "string" /\ ~grammarInputRejected(ret.input))
        => \A n \in 1..Len(linesOf(ret.input.s)) :
               /\ Cardinality(misspellingsIn(linesOf(ret.input.s)[n])) >= 2
                      => Len(spellingIssuesOn(ret.result, n)) = 2
               /\ Cardinality(misspellingsIn(linesOf(ret.input.s)[n])) < 2
                      => Len(spellingIssuesOn(ret.result, n))
                             = Cardinality(misspellingsIn(linesOf(ret.input.s)[n]))
               /\ \A j \in 1..Len(spellingIssuesOn(ret.result, n)) :
                      \E k \in misspellingsIn(linesOf(ret.input.s)[n]) :
                          /\ spellingIssuesOn(ret.result, n)[j].suggestion = Corrected[k]
                          /\ \E i \in 0..Len(linesOf(ret.input.s)[n]) :
                                 /\ wholeWordAt(linesOf(ret.input.s)[n], Misspelled[k], i)
                                 /\ spellingIssuesOn(ret.result, n)[j].column = i + 1

-----------------------------------------------------------------------------
(* Claims about tone scores                                                *)

\* The score is 0 or lies in [0.1, 1].
zeroOrDetectable(score) ==
    score.num = 0 \/ (~less(score, Fraction(1, 10)) /\ ~less(Fraction(1, 1), score))

\* C24: for a non-empty text of any word count every score that detectTone
\* reports is 0 or lies in [0.1, 1], and a tone is reported with the score 0
\* only if no word of its lexicon and none of its patterns occurs in the
\* text, that is, only if its raw score is 0.
C24_ScoreZeroOrDetectable ==
    /\ ret.op = "toneScore"
           => /\ zeroOrDetectable(ret.result)
              /\ ret.result.num = 0 => ret.input.score = 0
    /\ (ret.op = "detectTone" /\ truthy(ret.input) /\ ret.input.t = "string")
           => \A i \in 1..Len(ret.result) :
                  /\ zeroOrDetectable(ret.result[i].score)
                  /\ ret.result[i].score.num = 0
                         => rawScore(toLowerCase(ret.input.s), ret.result[i].tone) = 0

\* C25: suggestStyle comes back, with a list or an exception, for every text
\* and every rule table that loadStyleGuide accepted, rules with the global
\* flag whose pattern can match the empty string included.
C25_SuggestStyleTerminates ==
    ret.op = "suggestStyle" => ret.outcome \in {"return", "throw"}

\* The call went through the rewrite steps: a sentence with text, the
\* enrichment resolved, no step threw, and the time measured is within the
\* 200 ms of the budget.
rewroteWithinBudget ==
    /\ ret.op = "rewriteSentence"
    /\ ret.input.t = "string" /\ Len(trim(ret.input.s)) > 0
    /\ ~ret.input.enrichment.rejects
    /\ ~synonymRewriteThrows(ret.input.enrichment.tokens, ret.input.tone)
    /\ ret.input.duration <= 200

\* C26: when rewriteSentence completes within budget and without an internal
\* exception for a sentence with text, the three strings it returns are
\* pairwise distinct.
C26_RewritesPairwiseDistinct ==
    rewroteWithinBudget
        => \A i, j \in 1..Len(ret.result) : i # j => ret.result[i] # ret.result[j]

\* The polite request form of a sentence.
politeForm(sentence) ==
    (IF startsWith(toLowerCase(sentence), "send") THEN "Could you please "
     ELSE "Would you please ") \o toLowerCase(sentence)

\* C27: when rewriteSentence is called with tone 'polite' on a sentence that
\* contains none of 'please', 'would', 'could' and completes within budget
\* without an exception, one of the strings it returns is the polite request
\* form of the sentence.
C27_PoliteFormIsReturned ==
    (/\ rewroteWithinBudget
     /\ ret.input.tone = "polite"
     /\ \A w \in {"please", "would", "could"} : ~includes(ret.input.s, w))
        => \E i \in 1..Len(ret.result) : ret.result[i] = politeForm(ret.input.s)

\* C28: with a size limit of at least 1, after any sequence of set, get,
\* invalidate, clear and updateConfig, at any timestamps, the cache never
\* holds more entries than the limit.
C28_SizeWithinLimit ==
    (~resizing /\ maxCacheSize >= 1) => Len(suggestionCache) <= maxCacheSize

\* updateConfig was called with a size limit and has returned; the loop
\* went through a round that found nothing to evict, because every entry
\* was last accessed in the millisecond of the call.
resizedTo(n) ==
    /\ ret.op = "updateConfig" /\ ret.outcome = "return"
    /\ ret.input.maxCacheSize = n

\* C29: updateConfig({maxCacheSize: n}) terminates for every n >= 0 and every
\* state of the cache, also when all entries were last accessed in the
\* current millisecond, and on return the cache holds at most n entries.
C29_ResizeTerminatesWithinLimit ==
    /\ resizing ~> ~resizing
    /\ [](\A n \in 0..MaxCapacity : resizedTo(n) => Len(suggestionCache) <= n)

C29_Witness ==
    /\ \E n \in 0..MaxCapacity : resizedTo(n) /\ Len(suggestionCache) = n
    /\ ret.note = "spun"

\* C30: while the overlay service is running, the number of active overlays
\* never exceeds config.maxOverlays, however the handling of focus and
\* text-change events, each waiting for its window before it registers its
\* overlay, and configuration updates interleave.
C30_OverlaysWithinLimit ==
    isActive => Len(activeOverlays) <= maxOverlays

====
